---- MODULE Spec2Model ----
(***************************************************************************)
(* npm-ls-overrides: the tree unifier and renderer (tree.ts), the alias    *)
(* resolution and explain-output extractor (npm.ts), the pnpm path finder  *)
(* (pnpm.ts) and the unused-override detector (index.ts).                  *)
(*                                                                         *)
(* Every component is a pure function of its input, so each one has its    *)
(* own specification: Init draws the input from a bounded set and the      *)
(* actions run the code on it, one loop iteration per step.  The variables *)
(* of the other components stay at their idle values.                      *)
(***************************************************************************)
EXTENDS Integers, Sequences, FiniteSets, TLC

VARIABLES
    treePc,             \* position inside formatAsUnifiedTreeFromPathsWithRawSpecs
    pathsWithRawSpecs,  \* its argument: the list of chains
    pathIdx,            \* index of the next chain of the for loop of buildTree...
    tree,               \* the TreeNode graph under construction
    text,               \* the returned string
    npmPc,              \* position inside analyzeNpmOverrides
    packageJson,        \* its argument: the parsed manifest
    nameIdx,            \* index of the next name of the loop over packageNames
    explainPackageNames,\* the names handed to npm explain
    aliasMap,           \* Map alias name -> actual package name
    unusedPc,           \* position inside findUnusedOverrides
    manifestReadable,   \* whether getPackageJson(targetDir) returns or throws
    pkgJson,            \* the manifest findUnusedOverrides works on
    usedOverrides,      \* its argument: the usages found by analyzeOverrides
    entryIdx,           \* index of the next entry of the loop over combinedOverrides
    unusedOverrides,    \* the list it returns
    explainPc,          \* position inside parseExplainOutput
    explainOutput,      \* its argument: the parsed output of npm explain
    explainAliasMap,    \* its argument: Map alias name -> actual package name
    packageIdx,         \* index of the next entry of the loop over explainOutput
    overrides,          \* the list of usages it returns
    pnpmPc,             \* position inside analyzePnpmOverrides
    pnpmPackageJson,    \* its argument packageJson
    projects,           \* the parsed output of pnpm why
    pnpmNameIdx,        \* index of the next name of the loop over packageNames
    pnpmOverrides,      \* the list of usages it returns
    runPc,              \* position inside one run of main
    runReadable,        \* whether getPackageJson succeeds in this run
    runManifest,        \* what it reads
    hasPnpmLock,        \* fs.existsSync(pnpm-lock.yaml)
    resolution,         \* explainPackageNames and aliasMap of analyzeNpmOverrides
    commandResult,      \* how the external command ended
    explainReturn,      \* what getNpmExplainOutput returned
    runOverrides,       \* main: overrides = analyzeOverrides(targetDir)
    runUnused,          \* main: unusedOverrides = findUnusedOverrides(...)
    exitStatus,         \* the exit status of the process, once it has ended
    invocations,        \* how many times the external command was run
    escaped,            \* an exception left analyzeOverrides or findUnusedOverrides
    manifestReads,      \* how many times getPackageJson was called
    queriedNames        \* the names on the command line of each external command

treeVars == <<treePc, pathsWithRawSpecs, pathIdx, tree, text>>

aliasVars == <<npmPc, packageJson, nameIdx, explainPackageNames, aliasMap>>

unusedVars == <<unusedPc, manifestReadable, pkgJson, usedOverrides, entryIdx,
                unusedOverrides>>

explainVars == <<explainPc, explainOutput, explainAliasMap, packageIdx, overrides>>

pnpmVars == <<pnpmPc, pnpmPackageJson, projects, pnpmNameIdx, pnpmOverrides>>

runVars == <<runPc, runReadable, runManifest, hasPnpmLock, resolution, commandResult,
             explainReturn, runOverrides, runUnused, exitStatus, invocations, escaped,
             manifestReads, queriedNames>>

vars == <<treePc, pathsWithRawSpecs, pathIdx, tree, text,
          npmPc, packageJson, nameIdx, explainPackageNames, aliasMap,
          unusedPc, manifestReadable, pkgJson, usedOverrides, entryIdx,
          unusedOverrides,
          explainPc, explainOutput, explainAliasMap, packageIdx, overrides,
          pnpmPc, pnpmPackageJson, projects, pnpmNameIdx, pnpmOverrides,
          runPc, runReadable, runManifest, hasPnpmLock, resolution, commandResult,
          explainReturn, runOverrides, runUnused, exitStatus, invocations, escaped,
          manifestReads, queriedNames>>

(***************************************************************************)
(* Bounds of the model.                                                    *)
(***************************************************************************)
MaxChains == 2          \* chains in one list handed to the unifier
MaxOverrides == 2       \* declarations in the overrides map of a manifest
MaxSpecLen == 3         \* characters of an override value after an optional 'npm:'
MaxPnpmOverrides == 1   \* declarations in the pnpm.overrides map of a manifest
MaxUsed == 2            \* usages handed to findUnusedOverrides
MaxDependents == 2      \* dependent records in one dependents list of npm explain
MaxPackages == 2        \* entries in the output of npm explain
MaxProjectDeps == 2     \* entries of a project's dependencies in pnpm why
MaxProjects == 2        \* projects in the output of pnpm why

(***************************************************************************)
(* JavaScript values.                                                      *)
(***************************************************************************)
\* The value of an optional string property that is not set.
Undefined == "<undefined>"

\* JavaScript truthiness of a (string | undefined): undefined and '' are falsy.
Truthy(s) == s # Undefined /\ s # ""

\* a || b for (string | undefined) values.
Or(a, b) == IF Truthy(a) THEN a ELSE b

\* Array.prototype.join over a sequence of strings.
RECURSIVE Join(_, _)
Join(lines, sep) ==
    IF lines = <<>> THEN ""
    ELSE IF Len(lines) = 1 THEN lines[1]
    ELSE lines[1] \o sep \o Join(Tail(lines), sep)

\* Concatenation of a sequence of sequences.
RECURSIVE Flatten(_)
Flatten(ss) == IF ss = <<>> THEN <<>> ELSE Head(ss) \o Flatten(Tail(ss))

(***************************************************************************)
(* tree.ts.  A TreeNode graph is kept as the sequence of its nodes in      *)
(* creation order; node 1 is the root.  Every node records the index of    *)
(* its parent (0 for the root), so the children Map of node p is the       *)
(* nodes whose parent is p, and the Map's insertion order is their         *)
(* creation order (a key is set once, when it is first met).               *)
(***************************************************************************)
TreeNode(name, rawSpec, parent) ==
    [name |-> name, rawSpec |-> rawSpec, parent |-> parent]

\* Array.from(node.children.values()): the children of `node`, insertion order.
ChildrenOfReversed(nodes, node) ==
    LET forward == SelectSeq([k \in 1..Len(nodes) |-> k],
                             LAMBDA k : nodes[k].parent = node)
    IN  [i \in 1..Len(forward) |-> forward[Len(forward) + 1 - i]]

ChildrenOf(nodes, node) ==
    SelectSeq([k \in 1..Len(nodes) |-> k], LAMBDA k : nodes[k].parent = node)

\* node.children.has(key)
ChildrenHas(nodes, node, key) ==
    \E k \in 1..Len(nodes) : nodes[k].parent = node /\ nodes[k].name = key

\* node.children.get(key)!
ChildrenGet(nodes, node, key) ==
    LET hits == {k \in 1..Len(nodes) : nodes[k].parent = node /\ nodes[k].name = key}
    IN  CHOOSE k \in hits : \A j \in hits : k <= j

\* The guard of the backfill: !existingNode.rawSpec && currentSegment.rawSpec
BackfillsOverwrite(existingRawSpec, incomingRawSpec) ==
    Truthy(incomingRawSpec)

BackfillsNever(existingRawSpec, incomingRawSpec) == FALSE

Backfills(existingRawSpec, incomingRawSpec) ==
    ~Truthy(existingRawSpec) /\ Truthy(incomingRawSpec)

\* The guard of the creation of a child: !node.children.has(currentPackage)
CreatesChildAlways(nodes, node, key) == TRUE

CreatesChild(nodes, node, key) == ~ChildrenHas(nodes, node, key)

\* addPathToTreeWithRawSpecChain(node, pathSegments): the graph after the call.
RECURSIVE AddPathToTreeWithRawSpecChain(_, _, _)
AddPathToTreeWithRawSpecChain(nodes, node, pathSegments) ==
    IF Len(pathSegments) = 0 THEN nodes
    ELSE
        LET currentSegment == Head(pathSegments)
            remainingSegments == Tail(pathSegments)
            currentPackage == currentSegment.name
        IN  IF CreatesChild(nodes, node, currentPackage)
            THEN LET created == Append(nodes,
                        TreeNode(currentPackage, currentSegment.rawSpec, node))
                 IN  AddPathToTreeWithRawSpecChain(created, Len(created),
                                                   remainingSegments)
            ELSE LET existingNode == ChildrenGet(nodes, node, currentPackage)
                     updated ==
                        IF Backfills(nodes[existingNode].rawSpec, currentSegment.rawSpec)
                        THEN [nodes EXCEPT ![existingNode].rawSpec = currentSegment.rawSpec]
                        ELSE nodes
                 IN  AddPathToTreeWithRawSpecChain(updated, existingNode,
                                                   remainingSegments)

\* pathsWithRawSpecs[0][0]?.name || ''
RootPackage(paths) ==
    IF Len(paths[1]) > 0 /\ Truthy(paths[1][1].name) THEN paths[1][1].name ELSE ""

\* pathWithSpecs.slice(1): the chain without its root segment.
DependentSegmentsNoSlice(pathWithSpecs) == pathWithSpecs

DependentSegments(pathWithSpecs) == Tail(pathWithSpecs)

\* One iteration of the for loop of buildTreeFromPathsWithRawSpecChain.
AddOnePath(nodes, pathWithSpecs) ==
    IF Len(pathWithSpecs) > 1
    THEN AddPathToTreeWithRawSpecChain(nodes, 1, DependentSegments(pathWithSpecs))
    ELSE nodes

\* The root node buildTreeFromPathsWithRawSpecChain creates before its loop.
NewRoot(paths) == <<TreeNode(RootPackage(paths), Undefined, 0)>>

RECURSIVE AddPaths(_, _, _)
AddPaths(nodes, paths, i) ==
    IF i > Len(paths) THEN nodes
    ELSE AddPaths(AddOnePath(nodes, paths[i]), paths, i + 1)

\* What a call of buildTreeFromPathsWithRawSpecChain throws on an empty list.
NoPathsProvided == "Error: No paths provided"

\* buildTreeFromPathsWithRawSpecChain(pathsWithRawSpecs) as a function.
BuildTreeFromPathsWithRawSpecChain(paths) ==
    IF Len(paths) = 0 THEN NoPathsProvided
    ELSE AddPaths(NewRoot(paths), paths, 1)

\* const childDisplayName = child.rawSpec ? `${name} (${rawSpec})` : name
ChildDisplayName(child) ==
    IF Truthy(child.rawSpec)
    THEN child.name \o " (" \o child.rawSpec \o ")"
    ELSE child.name

\* const nextPrefix = isRoot ? '   ' : prefix + '   '
NextPrefixTwoSpaces(prefix, isRoot) == IF isRoot THEN "  " ELSE prefix \o "  "

NextPrefix(prefix, isRoot) == IF isRoot THEN "   " ELSE prefix \o "   "

\* const currentPrefix = isRoot ? ' - ' : prefix + ' - '
CurrentPrefix(prefix, isRoot) == IF isRoot THEN " - " ELSE prefix \o " - "

\* formatTreeNode(node, prefix, isRoot)
RECURSIVE FormatTreeNode(_, _, _, _)
FormatTreeNode(nodes, node, prefix, isRoot) ==
    LET children == ChildrenOf(nodes, node)
        LinesOfChild(child) ==
            LET own == <<CurrentPrefix(prefix, isRoot) \o ChildDisplayName(nodes[child])>>
            IN  IF Len(ChildrenOf(nodes, child)) > 0
                THEN LET childOutput ==
                            FormatTreeNode(nodes, child, NextPrefix(prefix, isRoot), FALSE)
                     IN  IF childOutput # "" THEN Append(own, childOutput) ELSE own
                ELSE own
        lines ==
            (IF isRoot THEN <<nodes[node].name>> ELSE <<>>)
            \o Flatten([k \in 1..Len(children) |-> LinesOfChild(children[k])])
    IN  Join(lines, "\n")

(***************************************************************************)
(* The inputs of the unifier: chains of one root and up to two dependents. *)
(***************************************************************************)
RootIds == {"a@1"}
Level1Ids == {"b@2", "b@3"}         \* one package name, two resolved versions
Level2Ids == {"c@3", "d@4"}
RawSpecs == {Undefined, "", "^1", "^2"}     \* specifiers of a first dependent
DeepRawSpecs == {Undefined, "^1"}           \* specifiers of a second dependent

Segment(name, rawSpec) == [name |-> name, rawSpec |-> rawSpec]

ChainsOf(rootId) ==
    LET r == Segment(rootId, Undefined)
    IN  {<<r>>}
        \cup {<<r, Segment(n1, s1)>> : n1 \in Level1Ids, s1 \in RawSpecs}
        \cup {<<r, Segment(n1, s1), Segment(n2, s2)>> :
                n1 \in Level1Ids, s1 \in RawSpecs, n2 \in Level2Ids, s2 \in DeepRawSpecs}

ChainLists ==
    UNION {[1..n -> ChainsOf(rootId)] : n \in 0..MaxChains, rootId \in RootIds}

\* test/index.test.ts, "should display rawSpec information when provided"
SendChains ==
    <<  <<Segment("send@0.19.1", Undefined), Segment("honkit@6.0.3", "^0.17.2")>>  >>

\* test/index.test.ts, "should display parent rawSpecs correctly in tree structure"
LodashChains ==
    <<  <<Segment("lodash@4.17.21", Undefined), Segment("async@2.6.4", "^4.17.14")>>,
        <<Segment("lodash@4.17.21", Undefined), Segment("async@2.6.4", "^4.17.14"),
          Segment("kuromoji@0.1.2", "^2.0.1")>>  >>

\* Two chains with a common dependent: a@1 > b@2 > c@3 and a@1 > b@2 > d@4.
SharedPrefixChains ==
    <<  <<Segment("a@1", Undefined), Segment("b@2", Undefined), Segment("c@3", Undefined)>>,
        <<Segment("a@1", Undefined), Segment("b@2", Undefined), Segment("d@4", Undefined)>>  >>

(***************************************************************************)
(* npm.ts, analyzeNpmOverrides: the alias resolution.  A string the code   *)
(* looks into (a package name, an override value) is the sequence of its   *)
(* characters.                                                             *)
(***************************************************************************)
NpmMarker == <<"n", "p", "m", ":">>

\* overrideValue.startsWith('npm:')
StartsWith(str, marker) ==
    Len(str) >= Len(marker) /\ SubSeq(str, 1, Len(marker)) = marker

\* str.substring(from), `from` counted from 0
SubstringFrom(str, from) == SubSeq(str, from + 1, Len(str))

\* str.substring(0, to), `to` counted from 0
SubstringTo(str, to) == SubSeq(str, 1, to)

\* str.lastIndexOf(ch): the index, counted from 0, of the last ch; -1 without one
LastIndexOfFirst(str, ch) ==
    LET hits == {k \in 1..Len(str) : str[k] = ch}
    IN  IF hits = {} THEN -1 ELSE (CHOOSE k \in hits : \A j \in hits : k <= j) - 1

LastIndexOf(str, ch) ==
    LET hits == {k \in 1..Len(str) : str[k] = ch}
    IN  IF hits = {} THEN -1 ELSE (CHOOSE k \in hits : \A j \in hits : j <= k) - 1

\* The test `atIndex > 0` that tells a version suffix from a scope prefix.
HasVersionSuffixFromZero(atIndex) == atIndex >= 0

HasVersionSuffix(atIndex) == atIndex > 0

\* const actualPackageName = atIndex > 0 ? npmPart.substring(0, atIndex) : npmPart
ActualPackageName(overrideValue) ==
    LET npmPart == SubstringFrom(overrideValue, 4)
        atIndex == LastIndexOf(npmPart, "@")
    IN  IF HasVersionSuffix(atIndex) THEN SubstringTo(npmPart, atIndex) ELSE npmPart

\* aliasMap.set(key, value)
MapSet(map, key, value) == [k \in DOMAIN map \cup {key} |-> IF k = key THEN value ELSE map[k]]

\* The empty Map.
EmptyMap == [k \in {} |-> <<>>]

\* The manifest: overrides is absent, or the declarations in the order of
\* Object.keys, each a name and its value (no name is an integer index, which
\* Object.keys would move to the front).
Manifest(hasOverrides, declared) ==
    [hasOverrides |-> hasOverrides, overrides |-> declared,
     hasPnpmOverrides |-> FALSE, pnpmOverrides |-> <<>>]

\* The same with the map under the manifest's pnpm.overrides key.
ManifestWithPnpm(manifest, declared) ==
    [manifest EXCEPT !.hasPnpmOverrides = TRUE, !.pnpmOverrides = declared]

Declaration(name, value) == [name |-> name, value |-> value]

\* The input domain: names, and values made of a few characters, with or
\* without the alias marker in front.
DeclaredNames == {<<"a">>, <<"b">>}
SpecAlphabet == {"@", "a", "/"}
SpecTails == UNION {[1..n -> SpecAlphabet] : n \in 0..MaxSpecLen}
OverrideValues == SpecTails \cup {NpmMarker \o t : t \in SpecTails}

\* The keys of an object are distinct, so no map is longer than the names.
MaxDeclared ==
    IF MaxOverrides < Cardinality(DeclaredNames)
    THEN MaxOverrides ELSE Cardinality(DeclaredNames)

OverridesMaps ==
    {o \in UNION {[1..n -> [name : DeclaredNames, value : OverrideValues]] :
                    n \in 0..MaxDeclared} :
        \A i, j \in 1..Len(o) : i # j => o[i].name # o[j].name}

\* README.md, "npm Alias Override": {"rollup": "npm:@rollup/wasm-node@^4.22.5"}
RollupName == <<"r", "o", "l", "l", "u", "p">>
RollupValue == <<"n", "p", "m", ":", "@", "r", "o", "l", "l", "u", "p", "/", "w", "a", "s", "m", "-", "n", "o", "d", "e", "@", "^", "4", ".", "2", "2", ".", "5">>
RollupActual == <<"@", "r", "o", "l", "l", "u", "p", "/", "w", "a", "s", "m", "-", "n", "o", "d", "e">>
\* A scoped alias target without a version: {"pkg": "npm:@scope/pkg"}
ScopedName == <<"p", "k", "g">>
ScopedValue == <<"n", "p", "m", ":", "@", "s", "c", "o", "p", "e", "/", "p", "k", "g">>
ScopedActual == <<"@", "s", "c", "o", "p", "e", "/", "p", "k", "g">>

ExampleManifest ==
    Manifest(TRUE, <<Declaration(RollupName, RollupValue),
                     Declaration(ScopedName, ScopedValue)>>)

Manifests ==
    {Manifest(FALSE, <<>>), ExampleManifest}
    \cup {Manifest(TRUE, o) : o \in OverridesMaps}

(***************************************************************************)
(* index.ts, findUnusedOverrides.                                          *)
(***************************************************************************)
\* { ...first, ...second }: the keys of `first` in their order, then the new
\* keys of `second`; a key of both keeps its place and takes the second value.
RECURSIVE Spread(_, _)
Spread(first, second) ==
    IF second = <<>> THEN first
    ELSE LET d == Head(second)
             hits == {k \in 1..Len(first) : first[k].name = d.name}
         IN  IF hits = {}
             THEN Spread(Append(first, d), Tail(second))
             ELSE Spread([k \in 1..Len(first) |->
                            IF k \in hits THEN d ELSE first[k]], Tail(second))

\* const combinedOverrides = { ...pkgJson.overrides, ...pkgJson.pnpm?.overrides }
CombinedOverrides(manifest) ==
    Spread(IF manifest.hasOverrides THEN manifest.overrides ELSE <<>>,
           IF manifest.hasPnpmOverrides THEN manifest.pnpmOverrides ELSE <<>>)

\* new Set(usedOverrides.map(override => override.name))
UsedOverrideNames(used) == {used[k].name : k \in 1..Len(used)}

\* The test of the loop: !usedOverrideNames.has(packageName)
IsUnusedAlways(usedNames, packageName) == TRUE

IsUnused(usedNames, packageName) == packageName \notin usedNames

\* unusedOverrides.push({ name: packageName, version: version })
PushUnusedInFront(unused, entry) ==
    <<[name |-> entry.name, version |-> entry.value]>> \o unused

PushUnused(unused, entry) ==
    Append(unused, [name |-> entry.name, version |-> entry.value])

\* The input domain of findUnusedOverrides.
UnusedNames == {<<"a">>, <<"b">>, <<"c">>}
DeclaredValues == {<<"1">>, <<"2">>}
ResolvedVersions == {<<"1">>, <<"9">>}
UsedNames == {<<"a">>, <<"b">>}

DeclarationLists(max) ==
    {o \in UNION {[1..n -> [name : UnusedNames, value : DeclaredValues]] : n \in 0..max} :
        \A i, j \in 1..Len(o) : i # j => o[i].name # o[j].name}

UnusedManifests ==
    LET plain == {Manifest(FALSE, <<>>)}
                 \cup {Manifest(TRUE, o) : o \in DeclarationLists(MaxOverrides)}
    IN  plain \cup {ManifestWithPnpm(m, o) :
                        m \in plain, o \in DeclarationLists(MaxPnpmOverrides)}

Usage(name, version) == [name |-> name, version |-> version]

UsageLists ==
    UNION {[1..n -> {Usage(nm, v) : nm \in UsedNames, v \in ResolvedVersions}] :
            n \in 0..MaxUsed}

\* test/fixtures/unused-example: overrides {send: "0.19.1", trim: "0.0.3"},
\* of which only send is found overridden.
SendName == <<"s", "e", "n", "d">>
TrimName == <<"t", "r", "i", "m">>
SendVersion == <<"0", ".", "1", "9", ".", "1">>
TrimVersion == <<"0", ".", "0", ".", "3">>

UnusedExampleManifest ==
    Manifest(TRUE, <<Declaration(SendName, SendVersion),
                     Declaration(TrimName, TrimVersion)>>)

UnusedExampleUsed == <<Usage(SendName, SendVersion)>>

(***************************************************************************)
(* npm.ts, parseExplainOutput and the extraction of the chains.  A string  *)
(* the code only compares and concatenates is a TLA+ string.               *)
(***************************************************************************)
\* NpmExplainDependent: `from` may be missing, and so may its name, its
\* version and its dependents (an empty list stands for a missing one).
From(name, version, dependents) ==
    [name |-> name, version |-> version, dependents |-> dependents]

Dependent(rawSpec, spec, hasFrom, from) ==
    [rawSpec |-> rawSpec, spec |-> spec, hasFrom |-> hasFrom, from |-> from]

\* NpmExplainPackage
ExplainPackage(name, version, overridden, dependents) ==
    [name |-> name, version |-> version, overridden |-> overridden,
     dependents |-> dependents]

\* The test `dependent.from && dependent.from.name`
HasParentIdentityAnyFrom(dependent) == dependent.hasFrom

HasParentIdentity(dependent) == dependent.hasFrom /\ Truthy(dependent.from.name)

\* `${dependent.from.name}@${dependent.from.version || 'unknown'}`
DependentIdentity(dependent) ==
    dependent.from.name \o "@" \o Or(dependent.from.version, "unknown")

\* const rawSpec = dependent.rawSpec || dependent.spec || ''; rawSpec || undefined
DependentRawSpecSpecFirst(dependent) ==
    Or(Or(Or(dependent.spec, dependent.rawSpec), ""), Undefined)

DependentRawSpec(dependent) ==
    Or(Or(Or(dependent.rawSpec, dependent.spec), ""), Undefined)

\* buildDependentPathsWithRawSpecChain(dependent, currentPath)
RECURSIVE BuildDependentPathsWithRawSpecChain(_, _)
BuildDependentPathsWithRawSpecChain(dependent, currentPath) ==
    IF HasParentIdentity(dependent)
    THEN LET newSegment == Segment(DependentIdentity(dependent),
                                   DependentRawSpec(dependent))
             newPath == Append(currentPath, newSegment)
             nested == dependent.from.dependents
         IN  IF Len(nested) > 0
             THEN Flatten([k \in 1..Len(nested) |->
                            BuildDependentPathsWithRawSpecChain(nested[k], newPath)])
             ELSE <<newPath>>
    ELSE IF Len(currentPath) > 0 THEN <<currentPath>> ELSE <<>>

\* aliasInfo of parseExplainOutput: absent, or the alias and the actual name.
NoAliasInfo == [isAlias |-> FALSE, aliasName |-> "", actualName |-> ""]

AliasInfo(aliasName, actualName) ==
    [isAlias |-> TRUE, aliasName |-> aliasName, actualName |-> actualName]

\* const rootPackage = aliasInfo ? `${alias}>${actual}@${version}` : `${name}@${version}`
ExplainRootPackagePlain(packageInfo, aliasInfo) ==
    packageInfo.name \o "@" \o packageInfo.version

ExplainRootPackage(packageInfo, aliasInfo) ==
    IF aliasInfo.isAlias
    THEN aliasInfo.aliasName \o ">" \o aliasInfo.actualName \o "@" \o packageInfo.version
    ELSE packageInfo.name \o "@" \o packageInfo.version

\* fullPathWithSpecs.map(segment => segment.name).join(' > ')
PathString(pathWithSpecs) ==
    Join([k \in 1..Len(pathWithSpecs) |-> pathWithSpecs[k].name], " > ")

\* if (!packageInfo.dependents || packageInfo.dependents.length === 0)
HasNoDependentsNever(packageInfo) == FALSE

HasNoDependents(packageInfo) == Len(packageInfo.dependents) = 0

\* buildAllDependencyPathsWithRawSpecs(packageInfo, aliasInfo)
BuildAllDependencyPathsWithRawSpecs(packageInfo, aliasInfo) ==
    LET rootPackage == ExplainRootPackage(packageInfo, aliasInfo)
        rootSegment == Segment(rootPackage, Undefined)
        dependents == packageInfo.dependents
        subPaths == Flatten([k \in 1..Len(dependents) |->
                        BuildDependentPathsWithRawSpecChain(dependents[k], <<>>)])
        fullPaths == [k \in 1..Len(subPaths) |-> <<rootSegment>> \o subPaths[k]]
    IN  IF HasNoDependents(packageInfo)
        THEN [dependencyPaths |-> <<rootPackage>>,
              pathsWithRawSpecs |-> << <<rootSegment>> >>]
        ELSE [dependencyPaths |-> [k \in 1..Len(fullPaths) |-> PathString(fullPaths[k])],
              pathsWithRawSpecs |-> fullPaths]

\* The test `packageInfo.overridden === true`
IsOverriddenAlways(packageInfo) == TRUE

IsOverridden(packageInfo) == packageInfo.overridden = TRUE

\* aliasMap?.get(packageInfo.name), as the aliasInfo handed on
AliasInfoOf(map, packageInfo) ==
    IF packageInfo.name \in DOMAIN map /\ Truthy(map[packageInfo.name])
    THEN AliasInfo(packageInfo.name, map[packageInfo.name])
    ELSE NoAliasInfo

\* The PackageOverride parseExplainOutput pushes for an overridden entry.
PackageOverride(packageInfo, map) ==
    LET aliasInfo == AliasInfoOf(map, packageInfo)
        built == BuildAllDependencyPathsWithRawSpecs(packageInfo, aliasInfo)
    IN  [name |-> packageInfo.name,
         version |-> packageInfo.version,
         dependencyPaths |-> built.dependencyPaths,
         pathsWithRawSpecs |-> built.pathsWithRawSpecs,
         aliasedFrom |-> IF aliasInfo.isAlias THEN packageInfo.name ELSE Undefined]

\* The input domain of parseExplainOutput.  A dependent record of the second
\* level comes from the root project (a `from` without a name) or from c@3.
RootProjectFrom == From(Undefined, Undefined, <<>>)
NoFrom == From(Undefined, Undefined, <<>>)

NestedDependents ==
    {Dependent(Undefined, "^2", TRUE, RootProjectFrom),
     Dependent(Undefined, "^2", TRUE, From("c", "3", <<>>))}

\* A parent of the second level has no, one or two dependents.
NestedDependentLists ==
    {<<>>} \cup {<<d>> : d \in NestedDependents}
           \cup {<<d, e>> : d \in NestedDependents, e \in NestedDependents}

\* The (rawSpec, spec) pairs of a dependent record of the first level.
SpecifierPairs ==
    {<<Undefined, "">>, <<Undefined, "^2">>, <<"^1", "^2">>}

TopDependents ==
    UNION {
        {Dependent(sp[1], sp[2], FALSE, NoFrom),
         Dependent(sp[1], sp[2], TRUE, RootProjectFrom),
         Dependent(sp[1], sp[2], TRUE, From("b", Undefined, <<>>))}
        \cup {Dependent(sp[1], sp[2], TRUE, From("b", "2", nested)) :
                nested \in NestedDependentLists}
        : sp \in SpecifierPairs}

TopDependentLists == UNION {[1..n -> TopDependents] : n \in 0..MaxDependents}

\* One overridden entry with any dependents forest ...
ForestOutputs == {<<ExplainPackage("x", "1", TRUE, d)>> : d \in TopDependentLists}

\* ... and lists of entries, overridden or not, with at most one dependent.
HonkitDependent == Dependent("^0.17.2", "0.19.1", TRUE,
                             From("honkit", "6.0.3", <<Dependent(Undefined, "6.0.3", TRUE,
                                                                  RootProjectFrom)>>))

ListedPackages ==
    {ExplainPackage(n, "1", o, d) :
        n \in {"x", "rollup"}, o \in BOOLEAN, d \in {<<>>, <<HonkitDependent>>}}

ListOutputs == UNION {[1..n -> ListedPackages] : n \in 0..MaxPackages}

\* The aliasMap of {"rollup": "npm:@rollup/wasm-node@^4.22.5"}
RollupAliasMap == [k \in {"rollup"} |-> "@rollup/wasm-node"]

\* The aliasMap of {"rollup": "npm:"}: the text after the marker is empty.
EmptyTargetAliasMap == [k \in {"rollup"} |-> ""]

ExplainAliasMaps == {EmptyMap, RollupAliasMap, EmptyTargetAliasMap}

(***************************************************************************)
(* pnpm.ts, analyzePnpmOverrides.  A Record<string, PnpmWhyPackage> is the *)
(* sequence of its entries in insertion order (a missing one is empty).    *)
(***************************************************************************)
\* PnpmWhyPackage
PnpmWhyPackage(from, version, dependencies, devDependencies, optionalDependencies) ==
    [from |-> from, version |-> version, dependencies |-> dependencies,
     devDependencies |-> devDependencies,
     optionalDependencies |-> optionalDependencies]

\* One entry of Object.entries(dependencies)
Entry(name, pkg) == [name |-> name, pkg |-> pkg]

\* PnpmWhyProject
PnpmWhyProject(name, version, dependencies, devDependencies, optionalDependencies) ==
    [name |-> name, version |-> version, dependencies |-> dependencies,
     devDependencies |-> devDependencies,
     optionalDependencies |-> optionalDependencies]

\* const newSegment = { name: `${name}@${pkg.version}`,
\*                      rawSpec: pkg.from !== name ? pkg.from : undefined }
PnpmSegment(name, pkg) ==
    Segment(name \o "@" \o pkg.version,
            IF pkg.from # name THEN pkg.from ELSE Undefined)

\* findPackagePaths(dependencies, targetName, currentPath, results): the paths
\* it pushes onto results, in the order it pushes them.
RECURSIVE FindPackagePaths(_, _, _)
FindPackagePaths(dependencies, targetName, currentPath) ==
    Flatten([k \in 1..Len(dependencies) |->
        LET name == dependencies[k].name
            pkg == dependencies[k].pkg
            newPath == Append(currentPath, PnpmSegment(name, pkg))
        IN  (IF name = targetName THEN <<newPath>> ELSE <<>>)
            \o FindPackagePaths(pkg.dependencies, targetName, newPath)
            \o FindPackagePaths(pkg.devDependencies, targetName, newPath)
            \o FindPackagePaths(pkg.optionalDependencies, targetName, newPath)])

\* const projectRoot = `${project.name}@${project.version}`
ProjectRoot(project) == project.name \o "@" \o project.version

\* The body of `for (const project of projects)`
ProjectPaths(project, packageName) ==
    LET start == <<Segment(ProjectRoot(project), Undefined)>>
    IN  FindPackagePaths(project.dependencies, packageName, start)
        \o FindPackagePaths(project.devDependencies, packageName, start)

\* findInDeps of findActualVersion, from entry k of deps on
RECURSIVE FindInDepsFrom(_, _, _)
FindInDepsFrom(deps, k, targetName) ==
    IF k > Len(deps) THEN Undefined
    ELSE IF deps[k].name = targetName THEN deps[k].pkg.version
    ELSE LET nested == FindInDepsFrom(deps[k].pkg.dependencies, 1, targetName)
         IN  IF Truthy(nested) THEN nested
             ELSE FindInDepsFrom(deps, k + 1, targetName)

FindInDeps(deps, targetName) == FindInDepsFrom(deps, 1, targetName)

\* findActualVersion(projects, targetName), from project k on
RECURSIVE FindActualVersionFrom(_, _, _)
FindActualVersionFrom(whyProjects, k, targetName) ==
    IF k > Len(whyProjects) THEN Undefined
    ELSE LET version == Or(Or(FindInDeps(whyProjects[k].dependencies, targetName),
                              FindInDeps(whyProjects[k].devDependencies, targetName)),
                           FindInDeps(whyProjects[k].optionalDependencies, targetName))
         IN  IF Truthy(version) THEN version
             ELSE FindActualVersionFrom(whyProjects, k + 1, targetName)

FindActualVersion(whyProjects, targetName) ==
    FindActualVersionFrom(whyProjects, 1, targetName)

\* The paths collected for packageName over all the projects.
PnpmPathsWithRawSpecs(whyProjects, packageName) ==
    Flatten([k \in 1..Len(whyProjects) |-> ProjectPaths(whyProjects[k], packageName)])

\* The PackageOverride pushed for packageName.
PnpmPackageOverride(whyProjects, declaration) ==
    LET paths == PnpmPathsWithRawSpecs(whyProjects, declaration.name)
    IN  [name |-> declaration.name,
         version |-> Or(FindActualVersion(whyProjects, declaration.name),
                        declaration.value),
         dependencyPaths |-> [k \in 1..Len(paths) |-> PathString(paths[k])],
         pathsWithRawSpecs |-> paths]

\* The input domain: manifests declaring x and y, and why outputs where x
\* and y hang below a project directly or below h.
PnpmNames == {"x", "y"}

PnpmDeclarationLists(max, value) ==
    {o \in UNION {[1..n -> [name : PnpmNames, value : {value}]] : n \in 0..max} :
        \A i, j \in 1..Len(o) : i # j => o[i].name # o[j].name}

PnpmManifests ==
    LET plain == {Manifest(FALSE, <<>>)}
                 \cup {Manifest(TRUE, o) : o \in PnpmDeclarationLists(MaxOverrides, "9")}
    IN  plain \cup {ManifestWithPnpm(m, o) :
                        m \in plain, o \in PnpmDeclarationLists(MaxPnpmOverrides, "8")}

Leaf(from, version) == PnpmWhyPackage(from, version, <<>>, <<>>, <<>>)

LeafEntries ==
    {Entry("x", Leaf("x", "1")), Entry("x", Leaf("z", "2")), Entry("y", Leaf("y", "1"))}

MidEntries ==
    {Entry("h", Leaf("h", "6"))}
    \cup {Entry("h", PnpmWhyPackage("h", "6", <<e>>, <<>>, <<>>)) : e \in LeafEntries}
    \cup {Entry("h", PnpmWhyPackage("h", "6", <<>>, <<e>>, <<>>)) : e \in LeafEntries}
    \cup {Entry("h", PnpmWhyPackage("h", "6", <<>>, <<>>, <<e>>)) : e \in LeafEntries}

ProjectDependencies ==
    {d \in UNION {[1..n -> LeafEntries \cup MidEntries] : n \in 0..MaxProjectDeps} :
        \A i, j \in 1..Len(d) : i # j => d[i].name # d[j].name}

SideDependencies == {<<>>, <<Entry("x", Leaf("x", "1"))>>}

\* One project with any dependencies ...
SingleProjects ==
    {<<PnpmWhyProject("p", "1", d, dev, opt)>> :
        d \in ProjectDependencies, dev \in SideDependencies, opt \in SideDependencies}

\* ... and a workspace of projects that reach x directly or through h.
WorkspaceProjects ==
    {PnpmWhyProject(n, "1", d, <<>>, <<>>) :
        n \in {"p", "q"},
        d \in {<<>>, <<Entry("x", Leaf("x", "1"))>>,
               <<Entry("h", PnpmWhyPackage("h", "6", <<Entry("x", Leaf("x", "1"))>>,
                                           <<>>, <<>>))>>}}

Workspaces == UNION {[1..n -> WorkspaceProjects] : n \in 0..MaxProjects}

(***************************************************************************)
(* index.ts and npm.ts, one run of the CLI: main, analyzeOverrides,        *)
(* getNpmExplainOutput.  The functions the run calls are taken whole.      *)
(***************************************************************************)
\* The string the characters of a sequence spell.
RECURSIVE Str(_)
Str(chars) == IF chars = <<>> THEN "" ELSE Head(chars) \o Str(Tail(chars))

\* A value of the overrides map: a string, or a nested object.
StringValue(chars) == [isString |-> TRUE, chars |-> chars]
ObjectValue == [isString |-> FALSE, chars |-> <<>>]

\* What JSON.parse gives for the captured output of the command.
JsonArray(items) == [kind |-> "array", items |-> items, hasError |-> FALSE]
JsonObject(hasError) == [kind |-> "object", items |-> <<>>, hasError |-> hasError]
JsonNull == [kind |-> "null", items |-> <<>>, hasError |-> FALSE]
JsonNumber == [kind |-> "number", items |-> <<>>, hasError |-> FALSE]
EmptyArray == JsonArray(<<>>)

\* The captured output: empty, only white space, not JSON, or a JSON text.
Stdout(form, json) == [text |-> form, json |-> json]

\* How execSync ends: it returns the output, or it throws an error that
\* carries the captured output (hasStdout) or one that does not.
CommandResult(status, hasStdout, stdout) ==
    [status |-> status, hasStdout |-> hasStdout, stdout |-> stdout]

\* JSON.parse(text) does not throw
Parses(stdout) == stdout.text = "json"

\* stdout && stdout.trim()
HasText(stdout) == stdout.text \in {"garbage", "json"}

\* parsed && typeof parsed === 'object' && 'error' in parsed
IsErrorPayload(parsed) == parsed.kind = "object" /\ parsed.hasError

\* The catch block of getNpmExplainOutput.
ExplainRecovered(result) ==
    IF result.hasStdout /\ HasText(result.stdout) /\ Parses(result.stdout)
    THEN LET parsed == result.stdout.json
         IN  IF IsErrorPayload(parsed) THEN EmptyArray
             ELSE IF parsed.kind = "array" THEN parsed
             ELSE EmptyArray
    ELSE EmptyArray

\* getNpmExplainOutput(targetDir, packageNames), given how the command ends
GetNpmExplainOutput(packageNames, result) ==
    IF Len(packageNames) = 0 THEN EmptyArray
    ELSE IF result.status = "ok"
         THEN IF Parses(result.stdout) THEN result.stdout.json
              ELSE EmptyArray
         ELSE ExplainRecovered(result)

\* The loop of analyzeNpmOverrides over declarations k.. : the names to
\* query and the aliasMap, or raised when a value has no startsWith.
RECURSIVE NpmResolution(_, _, _)
NpmResolution(declared, k, sofar) ==
    IF k > Len(declared) THEN sofar
    ELSE LET packageName == declared[k].name
             overrideValue == declared[k].value
         IN  IF ~overrideValue.isString
             THEN [sofar EXCEPT !.raised = TRUE]
             ELSE IF StartsWith(overrideValue.chars, NpmMarker)
             THEN LET actual == Str(ActualPackageName(overrideValue.chars))
                  IN  NpmResolution(declared, k + 1,
                        [raised |-> FALSE,
                         names |-> Append(sofar.names, actual),
                         aliasMap |-> MapSet(sofar.aliasMap, packageName, actual)])
             ELSE NpmResolution(declared, k + 1,
                        [sofar EXCEPT !.names = Append(sofar.names, packageName)])

NoResolution == [raised |-> FALSE, names |-> <<>>, aliasMap |-> EmptyMap]

\* for (const packageInfo of explainOutput) throws on these
IsIterable(json) == json.kind = "array"

\* parseExplainOutput(explainOutput, aliasMap) over entries k..
RECURSIVE ParseExplainOutput(_, _, _)
ParseExplainOutput(entries, map, k) ==
    IF k > Len(entries) THEN <<>>
    ELSE (IF IsOverridden(entries[k])
          THEN <<PackageOverride(entries[k], map)>> ELSE <<>>)
         \o ParseExplainOutput(entries, map, k + 1)

\* The loop of analyzePnpmOverrides over the declarations k..
RECURSIVE PnpmUsages(_, _, _)
PnpmUsages(whyProjects, declared, k) ==
    IF k > Len(declared) THEN <<>>
    ELSE (IF Len(PnpmPathsWithRawSpecs(whyProjects, declared[k].name)) > 0
          THEN <<PnpmPackageOverride(whyProjects, declared[k])>> ELSE <<>>)
         \o PnpmUsages(whyProjects, declared, k + 1)

\* The loop of findUnusedOverrides over the entries k..
RECURSIVE UnusedEntries(_, _, _)
UnusedEntries(entries, usedNames, k) ==
    IF k > Len(entries) THEN <<>>
    ELSE LET rest == UnusedEntries(entries, usedNames, k + 1)
         IN  IF IsUnused(usedNames, entries[k].name)
             THEN <<[name |-> entries[k].name, version |-> entries[k].value]>> \o rest
             ELSE rest

\* findUnusedOverrides(targetDir, usedOverrides)
FindUnusedOverrides(readable, manifest, used) ==
    IF ~readable THEN <<>>
    ELSE UnusedEntries(CombinedOverrides(manifest), UsedOverrideNames(used), 1)

\* The input domain of a run: manifests declaring x and rollup with a
\* version, an alias target or a nested object, and y under pnpm.overrides.
RunNames == {"x", "rollup"}

RunValues ==
    {StringValue(<<"9">>),
     StringValue(NpmMarker \o <<"w", "@", "4">>),
     ObjectValue}

RunDeclared ==
    {o \in UNION {[1..n -> [name : RunNames, value : RunValues]] :
                    n \in 0..MaxOverrides} :
        \A i, j \in 1..Len(o) : i # j => o[i].name # o[j].name}

RunPnpmDeclared ==
    {o \in UNION {[1..n -> [name : {"x", "y"}, value : {StringValue(<<"8">>)}]] :
                    n \in 0..MaxPnpmOverrides} :
        \A i, j \in 1..Len(o) : i # j => o[i].name # o[j].name}

RunManifests ==
    LET plain == {Manifest(FALSE, <<>>)} \cup {Manifest(TRUE, o) : o \in RunDeclared}
    IN  plain \cup {ManifestWithPnpm(m, o) : m \in plain, o \in RunPnpmDeclared}

\* What the explain command may print: entries for x and rollup.
RunPackages ==
    {ExplainPackage(n, "1", o, <<HonkitDependent>>) : n \in RunNames, o \in BOOLEAN}

RunStdouts ==
    {Stdout("empty", JsonNull), Stdout("blank", JsonNull), Stdout("garbage", JsonNull)}
    \cup {Stdout("json", j) : j \in {JsonNull, JsonNumber, JsonObject(TRUE),
                                     JsonObject(FALSE)}}
    \cup {Stdout("json", JsonArray(items)) :
            items \in UNION {[1..n -> RunPackages] : n \in 0..MaxPackages}}

CommandResults ==
    {CommandResult("ok", TRUE, out) : out \in RunStdouts}
    \cup {CommandResult("failed", TRUE, out) : out \in RunStdouts}
    \cup {CommandResult("failed", FALSE, Stdout("empty", JsonNull))}

(***************************************************************************)
(* The values of a component's variables while it is not the one running.  *)
(***************************************************************************)
TreeIdle ==
    /\ treePc = "idle"
    /\ pathsWithRawSpecs = <<>>
    /\ pathIdx = 0
    /\ tree = <<>>
    /\ text = ""

AliasIdle ==
    /\ npmPc = "idle"
    /\ packageJson = Manifest(FALSE, <<>>)
    /\ nameIdx = 0
    /\ explainPackageNames = <<>>
    /\ aliasMap = EmptyMap

UnusedIdle ==
    /\ unusedPc = "idle"
    /\ manifestReadable = FALSE
    /\ pkgJson = Manifest(FALSE, <<>>)
    /\ usedOverrides = <<>>
    /\ entryIdx = 0
    /\ unusedOverrides = <<>>

ExplainIdle ==
    /\ explainPc = "idle"
    /\ explainOutput = <<>>
    /\ explainAliasMap = EmptyMap
    /\ packageIdx = 0
    /\ overrides = <<>>

PnpmIdle ==
    /\ pnpmPc = "idle"
    /\ pnpmPackageJson = Manifest(FALSE, <<>>)
    /\ projects = <<>>
    /\ pnpmNameIdx = 0
    /\ pnpmOverrides = <<>>

NoCommand == CommandResult("none", FALSE, Stdout("empty", JsonNull))

RunIdle ==
    /\ runPc = "idle"
    /\ runReadable = FALSE
    /\ runManifest = Manifest(FALSE, <<>>)
    /\ hasPnpmLock = FALSE
    /\ resolution = NoResolution
    /\ commandResult = NoCommand
    /\ explainReturn = EmptyArray
    /\ runOverrides = <<>>
    /\ runUnused = <<>>
    /\ exitStatus = -1
    /\ invocations = 0
    /\ escaped = FALSE
    /\ manifestReads = 0
    /\ queriedNames = <<>>

(***************************************************************************)
(* SpecTree: formatAsUnifiedTreeFromPathsWithRawSpecs on a list of chains. *)
(***************************************************************************)
InitTree ==
    /\ treePc = "format"
    /\ pathsWithRawSpecs \in ChainLists \cup {SendChains, LodashChains, SharedPrefixChains}
    /\ pathIdx = 0
    /\ tree = <<>>
    /\ text = ""
    /\ AliasIdle
    /\ UnusedIdle
    /\ ExplainIdle
    /\ PnpmIdle
    /\ RunIdle

\* formatAsUnifiedTreeFromPathsWithRawSpecs: if (pathsWithRawSpecs.length === 0)
NoPathsNever(paths) == FALSE

NoPaths(paths) == Len(paths) = 0

\* formatAsUnifiedTreeFromPathsWithRawSpecs, the empty list: return ''
FormatEmpty ==
    /\ treePc = "format"
    /\ NoPaths(pathsWithRawSpecs)
    /\ text' = ""
    /\ treePc' = "returned"
    /\ UNCHANGED <<pathsWithRawSpecs, pathIdx, tree>>
    /\ UNCHANGED <<aliasVars, unusedVars, explainVars, pnpmVars, runVars>>

\* ... otherwise buildTreeFromPathsWithRawSpecChain is entered: it throws on
\* an empty list and creates the root node on any other.
BuildRoot ==
    /\ treePc = "format"
    /\ ~NoPaths(pathsWithRawSpecs)
    /\ IF BuildTreeFromPathsWithRawSpecChain(pathsWithRawSpecs) = NoPathsProvided
       THEN /\ treePc' = "threw"
            /\ UNCHANGED <<tree, pathIdx>>
       ELSE /\ tree' = NewRoot(pathsWithRawSpecs)
            /\ pathIdx' = 1
            /\ treePc' = "build"
    /\ UNCHANGED <<pathsWithRawSpecs, text>>
    /\ UNCHANGED <<aliasVars, unusedVars, explainVars, pnpmVars, runVars>>

\* One iteration of `for (const pathWithSpecs of pathsWithRawSpecs)`.
AddPath ==
    /\ treePc = "build"
    /\ pathIdx <= Len(pathsWithRawSpecs)
    /\ tree' = AddOnePath(tree, pathsWithRawSpecs[pathIdx])
    /\ pathIdx' = pathIdx + 1
    /\ UNCHANGED <<treePc, pathsWithRawSpecs, text>>
    /\ UNCHANGED <<aliasVars, unusedVars, explainVars, pnpmVars, runVars>>

\* The loop is over: buildTree... returns and formatTreeNode renders the root.
FormatTree ==
    /\ treePc = "build"
    /\ pathIdx > Len(pathsWithRawSpecs)
    /\ text' = FormatTreeNode(tree, 1, "", TRUE)
    /\ treePc' = "returned"
    /\ UNCHANGED <<pathsWithRawSpecs, pathIdx, tree>>
    /\ UNCHANGED <<aliasVars, unusedVars, explainVars, pnpmVars, runVars>>

NextTree == FormatEmpty \/ BuildRoot \/ AddPath \/ FormatTree

SpecTree == InitTree /\ [][NextTree]_vars

(***************************************************************************)
(* SpecUnused: findUnusedOverrides(targetDir, usedOverrides).              *)
(***************************************************************************)
InitUnused ==
    /\ unusedPc = "findUnusedOverrides"
    /\ \/ /\ manifestReadable = TRUE
          /\ \/ pkgJson \in UnusedManifests /\ usedOverrides \in UsageLists
             \/ pkgJson = UnusedExampleManifest /\ usedOverrides = UnusedExampleUsed
       \/ /\ manifestReadable = FALSE
          /\ pkgJson = Manifest(FALSE, <<>>)
          /\ usedOverrides \in UsageLists
    /\ entryIdx = 0
    /\ unusedOverrides = <<>>
    /\ TreeIdle
    /\ AliasIdle
    /\ ExplainIdle
    /\ PnpmIdle
    /\ RunIdle

\* getPackageJson throws: the catch logs the error and returns [].
ManifestFails ==
    /\ unusedPc = "findUnusedOverrides"
    /\ ~manifestReadable
    /\ unusedOverrides' = <<>>
    /\ unusedPc' = "returned"
    /\ UNCHANGED <<manifestReadable, pkgJson, usedOverrides, entryIdx>>
    /\ UNCHANGED <<treeVars, aliasVars, explainVars, pnpmVars, runVars>>

\* if (Object.keys(combinedOverrides).length === 0) return []
NothingDeclared ==
    /\ unusedPc = "findUnusedOverrides"
    /\ manifestReadable
    /\ Len(CombinedOverrides(pkgJson)) = 0
    /\ unusedOverrides' = <<>>
    /\ unusedPc' = "returned"
    /\ UNCHANGED <<manifestReadable, pkgJson, usedOverrides, entryIdx>>
    /\ UNCHANGED <<treeVars, aliasVars, explainVars, pnpmVars, runVars>>

\* ... otherwise the loop over Object.entries(combinedOverrides) starts.
StartEntries ==
    /\ unusedPc = "findUnusedOverrides"
    /\ manifestReadable
    /\ Len(CombinedOverrides(pkgJson)) # 0
    /\ entryIdx' = 1
    /\ unusedOverrides' = <<>>
    /\ unusedPc' = "entries"
    /\ UNCHANGED <<manifestReadable, pkgJson, usedOverrides>>
    /\ UNCHANGED <<treeVars, aliasVars, explainVars, pnpmVars, runVars>>

\* One iteration of `for (const [packageName, version] of Object.entries(...))`.
CheckEntry ==
    /\ unusedPc = "entries"
    /\ entryIdx <= Len(CombinedOverrides(pkgJson))
    /\ LET entry == CombinedOverrides(pkgJson)[entryIdx]
       IN  unusedOverrides' =
                IF IsUnused(UsedOverrideNames(usedOverrides), entry.name)
                THEN PushUnused(unusedOverrides, entry)
                ELSE unusedOverrides
    /\ entryIdx' = entryIdx + 1
    /\ UNCHANGED <<unusedPc, manifestReadable, pkgJson, usedOverrides>>
    /\ UNCHANGED <<treeVars, aliasVars, explainVars, pnpmVars, runVars>>

\* return unusedOverrides
ReturnUnused ==
    /\ unusedPc = "entries"
    /\ entryIdx > Len(CombinedOverrides(pkgJson))
    /\ unusedPc' = "returned"
    /\ UNCHANGED <<manifestReadable, pkgJson, usedOverrides, entryIdx, unusedOverrides>>
    /\ UNCHANGED <<treeVars, aliasVars, explainVars, pnpmVars, runVars>>

NextUnused ==
    ManifestFails \/ NothingDeclared \/ StartEntries \/ CheckEntry \/ ReturnUnused

SpecUnused == InitUnused /\ [][NextUnused]_vars

(***************************************************************************)
(* SpecExplain: parseExplainOutput(explainOutput, aliasMap).               *)
(***************************************************************************)
InitExplain ==
    /\ explainPc = "parseExplainOutput"
    /\ \/ explainOutput \in ForestOutputs /\ explainAliasMap = EmptyMap
       \/ explainOutput \in ListOutputs /\ explainAliasMap \in ExplainAliasMaps
    /\ packageIdx = 1
    /\ overrides = <<>>
    /\ TreeIdle
    /\ AliasIdle
    /\ UnusedIdle
    /\ PnpmIdle
    /\ RunIdle

\* One iteration of `for (const packageInfo of explainOutput)`.
ParsePackage ==
    /\ explainPc = "parseExplainOutput"
    /\ packageIdx <= Len(explainOutput)
    /\ LET packageInfo == explainOutput[packageIdx]
       IN  overrides' =
                IF IsOverridden(packageInfo)
                THEN Append(overrides, PackageOverride(packageInfo, explainAliasMap))
                ELSE overrides
    /\ packageIdx' = packageIdx + 1
    /\ UNCHANGED <<explainPc, explainOutput, explainAliasMap>>
    /\ UNCHANGED <<treeVars, aliasVars, unusedVars, pnpmVars, runVars>>

\* return overrides
ReturnOverrides ==
    /\ explainPc = "parseExplainOutput"
    /\ packageIdx > Len(explainOutput)
    /\ explainPc' = "returned"
    /\ UNCHANGED <<explainOutput, explainAliasMap, packageIdx, overrides>>
    /\ UNCHANGED <<treeVars, aliasVars, unusedVars, pnpmVars, runVars>>

NextExplain == ParsePackage \/ ReturnOverrides

SpecExplain == InitExplain /\ [][NextExplain]_vars

(***************************************************************************)
(* SpecPnpm: analyzePnpmOverrides(targetDir, packageJson).                 *)
(***************************************************************************)
InitPnpm ==
    /\ pnpmPc = "analyzePnpmOverrides"
    /\ pnpmPackageJson \in PnpmManifests
    /\ projects \in SingleProjects \cup Workspaces
    /\ pnpmNameIdx = 0
    /\ pnpmOverrides = <<>>
    /\ TreeIdle
    /\ AliasIdle
    /\ UnusedIdle
    /\ ExplainIdle
    /\ RunIdle

\* if (packageNames.length === 0) return []
PnpmNothingDeclared ==
    /\ pnpmPc = "analyzePnpmOverrides"
    /\ Len(CombinedOverrides(pnpmPackageJson)) = 0
    /\ pnpmPc' = "returned"
    /\ UNCHANGED <<pnpmPackageJson, projects, pnpmNameIdx, pnpmOverrides>>
    /\ UNCHANGED <<treeVars, aliasVars, unusedVars, explainVars, runVars>>

\* execSync or JSON.parse throws: catch (error) { return [] }
PnpmWhyFails ==
    /\ pnpmPc = "analyzePnpmOverrides"
    /\ Len(CombinedOverrides(pnpmPackageJson)) > 0
    /\ pnpmPc' = "failed"
    /\ UNCHANGED <<pnpmPackageJson, projects, pnpmNameIdx, pnpmOverrides>>
    /\ UNCHANGED <<treeVars, aliasVars, unusedVars, explainVars, runVars>>

\* const projects = JSON.parse(output); const overrides = []
PnpmWhy ==
    /\ pnpmPc = "analyzePnpmOverrides"
    /\ Len(CombinedOverrides(pnpmPackageJson)) > 0
    /\ pnpmPc' = "packageNames"
    /\ pnpmNameIdx' = 1
    /\ UNCHANGED <<pnpmPackageJson, projects, pnpmOverrides>>
    /\ UNCHANGED <<treeVars, aliasVars, unusedVars, explainVars, runVars>>

\* One iteration of `for (const packageName of packageNames)`.
PnpmPackage ==
    /\ pnpmPc = "packageNames"
    /\ pnpmNameIdx <= Len(CombinedOverrides(pnpmPackageJson))
    /\ LET declaration == CombinedOverrides(pnpmPackageJson)[pnpmNameIdx]
       IN  pnpmOverrides' =
                IF Len(PnpmPathsWithRawSpecs(projects, declaration.name)) > 0
                THEN Append(pnpmOverrides, PnpmPackageOverride(projects, declaration))
                ELSE pnpmOverrides
    /\ pnpmNameIdx' = pnpmNameIdx + 1
    /\ UNCHANGED <<pnpmPc, pnpmPackageJson, projects>>
    /\ UNCHANGED <<treeVars, aliasVars, unusedVars, explainVars, runVars>>

\* return overrides
PnpmReturn ==
    /\ pnpmPc = "packageNames"
    /\ pnpmNameIdx > Len(CombinedOverrides(pnpmPackageJson))
    /\ pnpmPc' = "returned"
    /\ UNCHANGED <<pnpmPackageJson, projects, pnpmNameIdx, pnpmOverrides>>
    /\ UNCHANGED <<treeVars, aliasVars, unusedVars, explainVars, runVars>>

NextPnpm ==
    \/ PnpmNothingDeclared
    \/ PnpmWhyFails
    \/ PnpmWhy
    \/ PnpmPackage
    \/ PnpmReturn

SpecPnpm == InitPnpm /\ [][NextPnpm]_vars

(***************************************************************************)
(* SpecRun: one run of main().                                             *)
(***************************************************************************)
InitRun ==
    /\ runPc = "analyzeOverrides"
    /\ \/ runReadable = TRUE /\ runManifest \in RunManifests
       \/ runReadable = FALSE /\ runManifest = Manifest(FALSE, <<>>)
    /\ hasPnpmLock \in BOOLEAN
    /\ resolution = NoResolution
    /\ commandResult = NoCommand
    /\ explainReturn = EmptyArray
    /\ runOverrides = <<>>
    /\ runUnused = <<>>
    /\ exitStatus = -1
    /\ invocations = 0
    /\ escaped = FALSE
    /\ manifestReads = 0
    /\ queriedNames = <<>>
    /\ TreeIdle
    /\ AliasIdle
    /\ UnusedIdle
    /\ ExplainIdle
    /\ PnpmIdle

\* The statements analyzeOverrides and findUnusedOverrides wrap in try/catch.
GuardedNever(step) == FALSE

Guarded(step) ==
    step \in {"getPackageJson", "existsSync", "analyzeNpmOverrides",
              "analyzePnpmOverrides", "findUnusedOverrides"}

\* An exception raised at `step`: the catch returns [], or it escapes.
Raise(step, next) ==
    IF Guarded(step)
    THEN /\ runOverrides' = <<>>
         /\ runPc' = next
         /\ escaped' = escaped
    ELSE /\ runOverrides' = runOverrides
         /\ runPc' = "crashed"
         /\ escaped' = TRUE

\* getPackageJson throws: package.json is missing or is not JSON.
ManifestUnreadable ==
    /\ runPc = "analyzeOverrides"
    /\ ~runReadable
    /\ Raise("getPackageJson", "report")
    /\ UNCHANGED <<runReadable, runManifest, hasPnpmLock, resolution, commandResult,
                   explainReturn, runUnused, exitStatus, invocations>>
    /\ manifestReads' = manifestReads + 1
    /\ UNCHANGED queriedNames
    /\ UNCHANGED <<treeVars, aliasVars, unusedVars, explainVars, pnpmVars>>

\* if (fs.existsSync(pnpm-lock.yaml)) return analyzePnpmOverrides(...)
DetectPackageManager ==
    /\ runPc = "analyzeOverrides"
    /\ runReadable
    /\ runPc' = IF hasPnpmLock THEN "analyzePnpmOverrides" ELSE "analyzeNpmOverrides"
    /\ UNCHANGED <<runReadable, runManifest, hasPnpmLock, resolution, commandResult,
                   explainReturn, runOverrides, runUnused, exitStatus, invocations,
                   escaped>>
    /\ manifestReads' = manifestReads + 1
    /\ UNCHANGED queriedNames
    /\ UNCHANGED <<treeVars, aliasVars, unusedVars, explainVars, pnpmVars>>

\* analyzeNpmOverrides: if (!packageJson.overrides) return []
RunNoOverrides ==
    /\ runPc = "analyzeNpmOverrides"
    /\ ~runManifest.hasOverrides
    /\ runOverrides' = <<>>
    /\ runPc' = "report"
    /\ UNCHANGED <<runReadable, runManifest, hasPnpmLock, resolution, commandResult,
                   explainReturn, runUnused, exitStatus, invocations, escaped>>
    /\ UNCHANGED manifestReads
    /\ UNCHANGED queriedNames
    /\ UNCHANGED <<treeVars, aliasVars, unusedVars, explainVars, pnpmVars>>

\* analyzeNpmOverrides: the loop that collects the names to query.
RunResolveNames ==
    /\ runPc = "analyzeNpmOverrides"
    /\ runManifest.hasOverrides
    /\ LET resolved == NpmResolution(runManifest.overrides, 1, NoResolution)
       IN  /\ resolution' = resolved
           /\ IF resolved.raised
              THEN Raise("analyzeNpmOverrides", "report")
              ELSE /\ runPc' = "getNpmExplainOutput"
                   /\ UNCHANGED <<runOverrides, escaped>>
    /\ UNCHANGED <<runReadable, runManifest, hasPnpmLock, commandResult,
                   explainReturn, runUnused, exitStatus, invocations>>
    /\ UNCHANGED manifestReads
    /\ UNCHANGED queriedNames
    /\ UNCHANGED <<treeVars, aliasVars, unusedVars, explainVars, pnpmVars>>

\* getNpmExplainOutput with no name: return [] without running the command.
RunExplainNothing ==
    /\ runPc = "getNpmExplainOutput"
    /\ Len(resolution.names) = 0
    /\ explainReturn' = GetNpmExplainOutput(resolution.names, NoCommand)
    /\ runPc' = "parseExplainOutput"
    /\ UNCHANGED <<runReadable, runManifest, hasPnpmLock, resolution, commandResult,
                   runOverrides, runUnused, exitStatus, invocations, escaped>>
    /\ UNCHANGED manifestReads
    /\ UNCHANGED queriedNames
    /\ UNCHANGED <<treeVars, aliasVars, unusedVars, explainVars, pnpmVars>>

\* getNpmExplainOutput: npm explain <names> --json runs and ends somehow.
RunExplain ==
    /\ runPc = "getNpmExplainOutput"
    /\ Len(resolution.names) > 0
    /\ \E result \in CommandResults :
        /\ commandResult' = result
        /\ explainReturn' = GetNpmExplainOutput(resolution.names, result)
    /\ invocations' = invocations + 1
    /\ runPc' = "parseExplainOutput"
    /\ UNCHANGED <<runReadable, runManifest, hasPnpmLock, resolution,
                   runOverrides, runUnused, exitStatus, escaped>>
    /\ UNCHANGED manifestReads
    /\ queriedNames' = Append(queriedNames, resolution.names)
    /\ UNCHANGED <<treeVars, aliasVars, unusedVars, explainVars, pnpmVars>>

\* return parseExplainOutput(explainOutput, aliasMap)
RunParse ==
    /\ runPc = "parseExplainOutput"
    /\ IF IsIterable(explainReturn)
       THEN /\ runOverrides' = ParseExplainOutput(explainReturn.items,
                                                   resolution.aliasMap, 1)
            /\ runPc' = "report"
            /\ UNCHANGED escaped
       ELSE Raise("analyzeNpmOverrides", "report")
    /\ UNCHANGED <<runReadable, runManifest, hasPnpmLock, resolution, commandResult,
                   explainReturn, runUnused, exitStatus, invocations>>
    /\ UNCHANGED manifestReads
    /\ UNCHANGED queriedNames
    /\ UNCHANGED <<treeVars, aliasVars, unusedVars, explainVars, pnpmVars>>

\* analyzePnpmOverrides: const packageNames = Object.keys(combinedOverrides)
PnpmQueryNamesFirstOnly(manifest) == <<CombinedOverrides(manifest)[1].name>>

PnpmQueryNames(manifest) ==
    [k \in 1..Len(CombinedOverrides(manifest)) |-> CombinedOverrides(manifest)[k].name]

\* analyzePnpmOverrides: if (packageNames.length === 0) return []
RunPnpmNothing ==
    /\ runPc = "analyzePnpmOverrides"
    /\ Len(CombinedOverrides(runManifest)) = 0
    /\ runOverrides' = <<>>
    /\ runPc' = "report"
    /\ UNCHANGED <<runReadable, runManifest, hasPnpmLock, resolution, commandResult,
                   explainReturn, runUnused, exitStatus, invocations, escaped>>
    /\ UNCHANGED manifestReads
    /\ UNCHANGED queriedNames
    /\ UNCHANGED <<treeVars, aliasVars, unusedVars, explainVars, pnpmVars>>

\* analyzePnpmOverrides: pnpm why fails or prints no JSON: catch, return []
RunPnpmFails ==
    /\ runPc = "analyzePnpmOverrides"
    /\ Len(CombinedOverrides(runManifest)) > 0
    /\ commandResult' = CommandResult("failed", FALSE, Stdout("empty", JsonNull))
    /\ invocations' = invocations + 1
    /\ runOverrides' = <<>>
    /\ runPc' = "report"
    /\ UNCHANGED <<runReadable, runManifest, hasPnpmLock, resolution,
                   explainReturn, runUnused, exitStatus, escaped>>
    /\ UNCHANGED manifestReads
    /\ queriedNames' = Append(queriedNames, PnpmQueryNames(runManifest))
    /\ UNCHANGED <<treeVars, aliasVars, unusedVars, explainVars, pnpmVars>>

\* analyzePnpmOverrides: pnpm why prints the projects; the loop over the names.
RunPnpmWhy ==
    /\ runPc = "analyzePnpmOverrides"
    /\ Len(CombinedOverrides(runManifest)) > 0
    /\ \E whyProjects \in Workspaces :
        runOverrides' = PnpmUsages(whyProjects, CombinedOverrides(runManifest), 1)
    /\ commandResult' = CommandResult("ok", TRUE, Stdout("json", JsonArray(<<>>)))
    /\ invocations' = invocations + 1
    /\ runPc' = "report"
    /\ UNCHANGED <<runReadable, runManifest, hasPnpmLock, resolution,
                   explainReturn, runUnused, exitStatus, escaped>>
    /\ UNCHANGED manifestReads
    /\ queriedNames' = Append(queriedNames, PnpmQueryNames(runManifest))
    /\ UNCHANGED <<treeVars, aliasVars, unusedVars, explainVars, pnpmVars>>

\* main: the usages are printed, then findUnusedOverrides(targetDir, overrides)
\* reads the manifest again.
RunFindUnused ==
    /\ runPc = "report"
    /\ runUnused' = FindUnusedOverrides(runReadable, runManifest, runOverrides)
    /\ IF runReadable \/ Guarded("findUnusedOverrides")
       THEN runPc' = "exit" /\ UNCHANGED escaped
       ELSE runPc' = "crashed" /\ escaped' = TRUE
    /\ UNCHANGED <<runReadable, runManifest, hasPnpmLock, resolution, commandResult,
                   explainReturn, runOverrides, exitStatus, invocations>>
    /\ manifestReads' = manifestReads + 1
    /\ UNCHANGED queriedNames
    /\ UNCHANGED <<treeVars, aliasVars, unusedVars, explainVars, pnpmVars>>

\* main: hasIssues, set when unusedOverrides.length > 0
HasIssuesNever(unused) == FALSE

HasIssues(unused) == Len(unused) > 0

\* main: if (hasIssues) process.exit(1); otherwise main returns.
RunExit ==
    /\ runPc = "exit"
    /\ exitStatus' = IF HasIssues(runUnused) THEN 1 ELSE 0
    /\ runPc' = "done"
    /\ UNCHANGED <<runReadable, runManifest, hasPnpmLock, resolution, commandResult,
                   explainReturn, runOverrides, runUnused, invocations, escaped>>
    /\ UNCHANGED manifestReads
    /\ UNCHANGED queriedNames
    /\ UNCHANGED <<treeVars, aliasVars, unusedVars, explainVars, pnpmVars>>

NextRun ==
    \/ ManifestUnreadable
    \/ DetectPackageManager
    \/ RunNoOverrides
    \/ RunResolveNames
    \/ RunExplainNothing
    \/ RunExplain
    \/ RunParse
    \/ RunPnpmNothing
    \/ RunPnpmFails
    \/ RunPnpmWhy
    \/ RunFindUnused
    \/ RunExit

SpecRun == InitRun /\ [][NextRun]_vars

(***************************************************************************)
(* Properties of the unifier and of the renderer, under SpecTree.          *)
(***************************************************************************)
Returned == treePc = "returned" /\ Len(pathsWithRawSpecs) > 0

\* Every chain of the list is non-empty and starts with the same identity.
SharedRoot(paths) ==
    \A i \in 1..Len(paths) :
        Len(paths[i]) > 0 /\ paths[i][1].name = paths[1][1].name

NoDuplicateChildren(nodes) ==
    \A i, j \in 1..Len(nodes) :
        (i # j /\ nodes[i].parent = nodes[j].parent) => nodes[i].name # nodes[j].name

\* The node a chain leads to: follow the identities of `segments` down from `node`
\* (0 when the tree has no such path).
RECURSIVE NodeAt(_, _, _)
NodeAt(nodes, node, segments) ==
    IF segments = <<>> THEN node
    ELSE IF ~ChildrenHas(nodes, node, Head(segments).name) THEN 0
    ELSE NodeAt(nodes, ChildrenGet(nodes, node, Head(segments).name), Tail(segments))

\* C1: at every moment of the build no node has two children with the same
\* identity; the chains a@1 > b@2 > c@3 and a@1 > b@2 > d@4 give the root a@1
\* with the single child b@2 holding c@3 and d@4; and two first dependents
\* with different identities (b@2, b@3) are two different children of the root.
C1_SharedPrefixesCollapse ==
    /\ NoDuplicateChildren(tree)
    /\ (treePc = "returned" /\ pathsWithRawSpecs = SharedPrefixChains) =>
            tree = << TreeNode("a@1", Undefined, 0), TreeNode("b@2", Undefined, 1),
                      TreeNode("c@3", Undefined, 2), TreeNode("d@4", Undefined, 2) >>
    /\ Returned =>
            \A i, j \in 1..Len(pathsWithRawSpecs) :
                LET p == pathsWithRawSpecs[i]
                    q == pathsWithRawSpecs[j]
                IN  (Len(p) > 1 /\ Len(q) > 1 /\ p[2].name # q[2].name) =>
                        /\ NodeAt(tree, 1, <<p[2]>>) # 0
                        /\ NodeAt(tree, 1, <<q[2]>>) # 0
                        /\ NodeAt(tree, 1, <<p[2]>>) # NodeAt(tree, 1, <<q[2]>>)

C1_Witness ==
    /\ treePc = "returned"
    /\ pathsWithRawSpecs = SharedPrefixChains
    /\ Len(tree) = 4

RECURSIVE SumOfLengths(_)
SumOfLengths(paths) ==
    IF paths = <<>> THEN 0 ELSE Len(Head(paths)) + SumOfLengths(Tail(paths))

LongestLength(paths) ==
    CHOOSE n \in {Len(paths[i]) : i \in 1..Len(paths)} :
        \A i \in 1..Len(paths) : Len(paths[i]) <= n

\* Two chains have the same first dependent: a common prefix beyond the root.
SharePrefixBeyondRoot(p, q) == Len(p) > 1 /\ Len(q) > 1 /\ p[2].name = q[2].name

\* C2: for a non-empty list of chains with a common root identity the root of
\* the tree has that identity, and the number of nodes is at least the length
\* of the longest chain and at most the sum of the lengths, the sum being
\* reached only when no two chains share a prefix beyond the root.
C2_RootAndNodeCount ==
    (Returned /\ SharedRoot(pathsWithRawSpecs)) =>
        /\ tree[1].name = pathsWithRawSpecs[1][1].name
        /\ tree[1].parent = 0
        /\ Len(tree) >= LongestLength(pathsWithRawSpecs)
        /\ Len(tree) <= SumOfLengths(pathsWithRawSpecs)
        /\ Len(tree) = SumOfLengths(pathsWithRawSpecs) =>
                \A i, j \in 1..Len(pathsWithRawSpecs) :
                    i # j => ~SharePrefixBeyondRoot(pathsWithRawSpecs[i],
                                                    pathsWithRawSpecs[j])

C2_Witness ==
    /\ Returned
    /\ SharedRoot(pathsWithRawSpecs)
    /\ Len(pathsWithRawSpecs) >= 2
    /\ Len(tree) > LongestLength(pathsWithRawSpecs)
    /\ Len(tree) < SumOfLengths(pathsWithRawSpecs)

\* C3: the tree of a list and the tree of that list with any one of its chains
\* appended again are the same: same nodes, same order of children, same
\* specifier on every node.
C3_DuplicateChainChangesNothing ==
    Returned =>
        \A k \in 1..Len(pathsWithRawSpecs) :
            BuildTreeFromPathsWithRawSpecChain(
                Append(pathsWithRawSpecs, pathsWithRawSpecs[k])) = tree

C3_Witness ==
    /\ Returned
    /\ Len(pathsWithRawSpecs) = 2
    /\ Len(pathsWithRawSpecs[1]) = 3
    /\ Len(pathsWithRawSpecs[2]) = 3
    /\ pathsWithRawSpecs[1][2].name = pathsWithRawSpecs[2][2].name
    /\ pathsWithRawSpecs[1][2].rawSpec = "^1"
    /\ pathsWithRawSpecs[2][2].rawSpec = "^2"
    /\ pathsWithRawSpecs[1][3].name # pathsWithRawSpecs[2][3].name

\* Chains p and q are the same except for the specifier of segment k.
DifferOnlyInSpecifierAt(p, q, k) ==
    /\ Len(p) = Len(q)
    /\ k \in 2..Len(p)
    /\ p[k].rawSpec # q[k].rawSpec
    /\ \A n \in 1..Len(p) : p[n].name = q[n].name
    /\ \A n \in 1..Len(p) : n # k => p[n].rawSpec = q[n].rawSpec

\* The specifier stored on the node that the first k segments of chain p lead to.
SpecifierAt(nodes, p, k) == nodes[NodeAt(nodes, 1, SubSeq(p, 2, k))].rawSpec

\* C4 as claimed: of two chains that differ only in the specifier of one
\* segment, the node of that segment carries the specifier of the first chain.
C4_FirstChainAlwaysWins ==
    (Returned /\ Len(pathsWithRawSpecs) = 2) =>
        \A k \in 2..Len(pathsWithRawSpecs[1]) :
            DifferOnlyInSpecifierAt(pathsWithRawSpecs[1], pathsWithRawSpecs[2], k) =>
                SpecifierAt(tree, pathsWithRawSpecs[1], k) = pathsWithRawSpecs[1][k].rawSpec

\* C4 as amended: the node carries the specifier of the first chain, unless
\* that one is absent or empty and the later chain's is not: then the node
\* carries the specifier of the later chain.
C4_FirstPresentSpecifierWins ==
    (Returned /\ Len(pathsWithRawSpecs) = 2) =>
        \A k \in 2..Len(pathsWithRawSpecs[1]) :
            DifferOnlyInSpecifierAt(pathsWithRawSpecs[1], pathsWithRawSpecs[2], k) =>
                LET first == pathsWithRawSpecs[1][k].rawSpec
                    later == pathsWithRawSpecs[2][k].rawSpec
                    stored == SpecifierAt(tree, pathsWithRawSpecs[1], k)
                IN  IF first \in {Undefined, ""} /\ later \notin {Undefined, ""}
                    THEN stored = later
                    ELSE stored = first

C4_Witness ==
    /\ Returned
    /\ Len(pathsWithRawSpecs) = 2
    /\ Len(pathsWithRawSpecs[1]) = 3
    /\ DifferOnlyInSpecifierAt(pathsWithRawSpecs[1], pathsWithRawSpecs[2], 2)
    /\ pathsWithRawSpecs[1][2].rawSpec = "^2"
    /\ pathsWithRawSpecs[2][2].rawSpec = "^1"
    /\ tree[2].rawSpec = "^2"

\* The nodes of the subtree of `node`, depth first, children in insertion order.
RECURSIVE Preorder(_, _)
Preorder(nodes, node) ==
    LET children == ChildrenOf(nodes, node)
    IN  <<node>> \o Flatten([k \in 1..Len(children) |-> Preorder(nodes, children[k])])

RECURSIVE Depth(_, _)
Depth(nodes, node) ==
    IF nodes[node].parent = 0 THEN 0 ELSE 1 + Depth(nodes, nodes[node].parent)

RECURSIVE Spaces(_)
Spaces(n) == IF n = 0 THEN "" ELSE " " \o Spaces(n - 1)

\* The line of a node: the root is its identity; a descendant at depth d is
\* indented by three spaces per level below the first, then ' - ', then its
\* identity, followed by ' (<specifier>)' when it has a specifier.
ExpectedLine(nodes, node) ==
    IF nodes[node].parent = 0 THEN nodes[node].name
    ELSE Spaces(3 * (Depth(nodes, node) - 1)) \o " - " \o nodes[node].name
         \o (IF nodes[node].rawSpec \in {Undefined, ""} THEN ""
             ELSE " (" \o nodes[node].rawSpec \o ")")

ExpectedText(nodes) ==
    LET order == Preorder(nodes, 1)
    IN  Join([k \in 1..Len(order) |-> ExpectedLine(nodes, order[k])], "\n")

\* C10: the text is the line of the root followed by one line per descendant
\* in depth-first order, each being its indentation, ' - ' and the identity
\* with ' (<specifier>)' when the node has one; send@0.19.1 > honkit@6.0.3
\* with specifier ^0.17.2 gives 'send@0.19.1' and ' - honkit@6.0.3 (^0.17.2)'.
C10_RenderedLines ==
    /\ Returned =>
            /\ Len(Preorder(tree, 1)) = Len(tree)
            /\ text = ExpectedText(tree)
    /\ (Returned /\ pathsWithRawSpecs = SendChains) =>
            text = "send@0.19.1\n - honkit@6.0.3 (^0.17.2)"

C10_Witness ==
    /\ Returned
    /\ Len(tree) = 5
    /\ \E n \in 1..Len(tree) : Depth(tree, n) = 2 /\ tree[n].rawSpec = "^1"
    /\ \E n \in 1..Len(tree) : Depth(tree, n) = 1 /\ tree[n].rawSpec = Undefined

(***************************************************************************)
(* SpecAlias: analyzeNpmOverrides up to the call of getNpmExplainOutput.   *)
(***************************************************************************)
InitAlias ==
    /\ npmPc = "analyzeNpmOverrides"
    /\ packageJson \in Manifests
    /\ nameIdx = 0
    /\ explainPackageNames = <<>>
    /\ aliasMap = EmptyMap
    /\ TreeIdle
    /\ UnusedIdle
    /\ ExplainIdle
    /\ PnpmIdle
    /\ RunIdle

\* if (!packageJson.overrides) return []
NoOverridesReturn ==
    /\ npmPc = "analyzeNpmOverrides"
    /\ ~packageJson.hasOverrides
    /\ npmPc' = "returned"
    /\ UNCHANGED <<packageJson, nameIdx, explainPackageNames, aliasMap>>
    /\ UNCHANGED <<treeVars, unusedVars, explainVars, pnpmVars, runVars>>

\* const packageNames = Object.keys(...); explainPackageNames = []; aliasMap = new Map()
CollectNames ==
    /\ npmPc = "analyzeNpmOverrides"
    /\ packageJson.hasOverrides
    /\ nameIdx' = 1
    /\ explainPackageNames' = <<>>
    /\ aliasMap' = EmptyMap
    /\ npmPc' = "names"
    /\ UNCHANGED packageJson
    /\ UNCHANGED <<treeVars, unusedVars, explainVars, pnpmVars, runVars>>

\* One iteration of `for (const packageName of packageNames)`.
ResolveName ==
    /\ npmPc = "names"
    /\ nameIdx <= Len(packageJson.overrides)
    /\ LET packageName == packageJson.overrides[nameIdx].name
           overrideValue == packageJson.overrides[nameIdx].value
       IN  IF StartsWith(overrideValue, NpmMarker)
           THEN /\ explainPackageNames' =
                        Append(explainPackageNames, ActualPackageName(overrideValue))
                /\ aliasMap' = MapSet(aliasMap, packageName,
                                      ActualPackageName(overrideValue))
           ELSE /\ explainPackageNames' = Append(explainPackageNames, packageName)
                /\ aliasMap' = aliasMap
    /\ nameIdx' = nameIdx + 1
    /\ UNCHANGED <<npmPc, packageJson>>
    /\ UNCHANGED <<treeVars, unusedVars, explainVars, pnpmVars, runVars>>

\* The loop is over: the names go to getNpmExplainOutput.
NamesResolved ==
    /\ npmPc = "names"
    /\ nameIdx > Len(packageJson.overrides)
    /\ npmPc' = "explain"
    /\ UNCHANGED <<packageJson, nameIdx, explainPackageNames, aliasMap>>
    /\ UNCHANGED <<treeVars, unusedVars, explainVars, pnpmVars, runVars>>

NextAlias == NoOverridesReturn \/ CollectNames \/ ResolveName \/ NamesResolved

SpecAlias == InitAlias /\ [][NextAlias]_vars

(***************************************************************************)
(* Properties of the alias resolution, under SpecAlias.                    *)
(***************************************************************************)
\* `name` is `value` up to a last '@' that is not its first character: the
\* rest after that '@' holds no '@'.
IsNameBeforeLastAt(name, value) ==
    /\ Len(name) > 0
    /\ Len(name) < Len(value)
    /\ SubSeq(value, 1, Len(name)) = name
    /\ value[Len(name) + 1] = "@"
    /\ \A k \in (Len(name) + 2)..Len(value) : value[k] # "@"

\* The remainder has no '@' at an index > 0.
HasNoAtAfterFirst(value) == \A k \in 2..Len(value) : value[k] # "@"

\* C5: after the loop there is one query name per declaration, in order.  For
\* a declaration whose value starts with 'npm:' the query name is the part of
\* the remainder before its last '@' when that '@' is at index > 0 and the
\* whole remainder otherwise, and aliasMap maps the declared name to it; any
\* other declaration gives its declared name and no aliasMap entry.
C5_AliasResolution ==
    npmPc = "explain" =>
        /\ Len(explainPackageNames) = Len(packageJson.overrides)
        /\ \A i \in 1..Len(packageJson.overrides) :
            LET d == packageJson.overrides[i]
                marked == Len(d.value) >= 4 /\ d.value[1] = "n" /\ d.value[2] = "p"
                          /\ d.value[3] = "m" /\ d.value[4] = ":"
                remainder == [k \in 1..(Len(d.value) - 4) |-> d.value[k + 4]]
                actual == explainPackageNames[i]
            IN  IF marked
                THEN /\ \/ IsNameBeforeLastAt(actual, remainder)
                        \/ HasNoAtAfterFirst(remainder) /\ actual = remainder
                     /\ d.name \in DOMAIN aliasMap
                     /\ aliasMap[d.name] = actual
                ELSE /\ actual = d.name
                     /\ d.name \notin DOMAIN aliasMap
        /\ packageJson = ExampleManifest =>
                /\ explainPackageNames = <<RollupActual, ScopedActual>>
                /\ aliasMap[RollupName] = RollupActual
                /\ aliasMap[ScopedName] = ScopedActual

C5_Witness ==
    /\ npmPc = "explain"
    /\ packageJson = ExampleManifest
    /\ DOMAIN aliasMap = {RollupName, ScopedName}

(***************************************************************************)
(* Properties of the unused-override detector, under SpecUnused.           *)
(***************************************************************************)
UnusedReturned == unusedPc = "returned" /\ manifestReadable

\* D: the names the manifest declares, under overrides or under pnpm.overrides.
DeclaredNameSet(manifest) ==
    {manifest.overrides[k].name : k \in 1..Len(manifest.overrides)}
    \cup {manifest.pnpmOverrides[k].name : k \in 1..Len(manifest.pnpmOverrides)}

\* F: the names of the usages.
FoundNameSet(used) == {used[k].name : k \in 1..Len(used)}

\* C6: the names returned are exactly the declared names that no usage has,
\* each once, whatever the versions; nothing is returned when every declared
\* name has a usage.
C6_UnusedIsDeclaredMinusFound ==
    UnusedReturned =>
        LET D == DeclaredNameSet(pkgJson)
            F == FoundNameSet(usedOverrides)
        IN  /\ {unusedOverrides[k].name : k \in 1..Len(unusedOverrides)} = D \ F
            /\ Len(unusedOverrides) = Cardinality(D \ F)
            /\ D \subseteq F => unusedOverrides = <<>>

C6_Witness ==
    /\ UnusedReturned
    /\ Len(unusedOverrides) = 1
    /\ Cardinality(DeclaredNameSet(pkgJson)) = 3
    /\ \E k \in 1..Len(usedOverrides) : \E j \in 1..Len(pkgJson.overrides) :
            /\ usedOverrides[k].name = pkgJson.overrides[j].name
            /\ usedOverrides[k].version # pkgJson.overrides[j].value

\* The place of a name in the order of declaration: the overrides map first,
\* then the pnpm.overrides map.
DeclarationOrder(manifest) ==
    [k \in 1..(Len(manifest.overrides) + Len(manifest.pnpmOverrides)) |->
        IF k <= Len(manifest.overrides) THEN manifest.overrides[k].name
        ELSE manifest.pnpmOverrides[k - Len(manifest.overrides)].name]

FirstPlace(order, name) ==
    CHOOSE k \in 1..Len(order) :
        order[k] = name /\ \A j \in 1..Len(order) : order[j] = name => k <= j

\* The value the manifest declares for a name (the pnpm.overrides one when
\* both maps declare the name).
DeclaredValue(manifest, name) ==
    IF \E k \in 1..Len(manifest.pnpmOverrides) : manifest.pnpmOverrides[k].name = name
    THEN manifest.pnpmOverrides[
            CHOOSE k \in 1..Len(manifest.pnpmOverrides) :
                manifest.pnpmOverrides[k].name = name].value
    ELSE manifest.overrides[
            CHOOSE k \in 1..Len(manifest.overrides) :
                manifest.overrides[k].name = name].value

NoDuplicateChain(chains) ==
    \A i, j \in 1..Len(chains) : i # j => chains[i] # chains[j]

\* C9: in every usage parseExplainOutput builds no two chains are equal as
\* sequences of (identity, specifier) segments.
C9_NoDuplicateChain ==
    \A u \in 1..Len(overrides) : NoDuplicateChain(overrides[u].pathsWithRawSpecs)

\* The identity segment of the package of usage u: name@version, or
\* alias>actual@version when the usage is one of an alias.
OwnIdentity(u, map) ==
    IF u.name \in DOMAIN map /\ Truthy(map[u.name])
    THEN u.name \o ">" \o map[u.name] \o "@" \o u.version
    ELSE u.name \o "@" \o u.version

IsAlias(u, map) == u.name \in DOMAIN map /\ Truthy(map[u.name])

BeginsWithOwnIdentity(u, map) ==
    \A c \in 1..Len(u.pathsWithRawSpecs) :
        LET chain == u.pathsWithRawSpecs[c]
        IN  /\ Len(chain) >= 1
            /\ chain[1].name = OwnIdentity(u, map)
            /\ chain[1].rawSpec = Undefined

\* C8: in every usage, under npm and under pnpm, every chain begins with the
\* identity segment of the overridden package itself, and that first segment
\* carries no specifier.
C8_ChainsBeginWithOverriddenPackage ==
    /\ \A u \in 1..Len(overrides) : BeginsWithOwnIdentity(overrides[u], explainAliasMap)
    /\ \A u \in 1..Len(pnpmOverrides) : BeginsWithOwnIdentity(pnpmOverrides[u], EmptyMap)

\* The root node of the tree the unifier builds from the chains of usage u.
UsageTreeRoot(u) == BuildTreeFromPathsWithRawSpecChain(u.pathsWithRawSpecs)[1]

RootSegmentIs(u, identity) ==
    /\ \A c \in 1..Len(u.pathsWithRawSpecs) :
            /\ Len(u.pathsWithRawSpecs[c]) >= 1
            /\ u.pathsWithRawSpecs[c][1] = Segment(identity, Undefined)
    /\ Len(u.pathsWithRawSpecs) > 0 => UsageTreeRoot(u).name = identity

\* C11: a usage whose name is a declared alias (with a non-empty actual name)
\* keeps the alias name, has aliasedFrom set, and the root segment of every
\* chain, hence the root of its tree, is '<alias>><actualName>@<version>'; any
\* other usage has root segment '<name>@<version>' and no aliasedFrom.
C11_AliasRootSegment ==
    \A k \in 1..Len(overrides) :
        LET u == overrides[k]
        IN  IF u.name \in DOMAIN explainAliasMap /\ explainAliasMap[u.name] # ""
            THEN /\ u.aliasedFrom = u.name
                 /\ RootSegmentIs(u, u.name \o ">" \o explainAliasMap[u.name]
                                        \o "@" \o u.version)
            ELSE /\ u.aliasedFrom = Undefined
                 /\ RootSegmentIs(u, u.name \o "@" \o u.version)

C11_Witness ==
    /\ explainPc = "returned"
    /\ explainAliasMap = RollupAliasMap
    /\ Len(overrides) = 2
    /\ overrides[1].name = "rollup"
    /\ overrides[1].aliasedFrom = "rollup"
    /\ overrides[1].pathsWithRawSpecs[1][1].name = "rollup>@rollup/wasm-node@1"
    /\ Len(overrides[1].pathsWithRawSpecs[1]) = 2
    /\ overrides[2].name = "x"
    /\ overrides[2].pathsWithRawSpecs[1][1].name = "x@1"

\* The entries of an explain response whose overridden flag is true, in order.
RECURSIVE FlaggedEntries(_)
FlaggedEntries(output) ==
    IF output = <<>> THEN <<>>
    ELSE IF Head(output).overridden = TRUE
         THEN <<Head(output)>> \o FlaggedEntries(Tail(output))
         ELSE FlaggedEntries(Tail(output))

\* C12: the usages parseExplainOutput has pushed are, in response order, one
\* per entry read so far whose overridden flag is true, with that entry's
\* name and version; so an empty response returns the empty list.
C12_OneUsagePerOverriddenEntry ==
    explainPc \in {"parseExplainOutput", "returned"} =>
        LET flagged == FlaggedEntries(SubSeq(explainOutput, 1, packageIdx - 1))
        IN  /\ Len(overrides) = Len(flagged)
            /\ \A k \in 1..Len(flagged) :
                    /\ overrides[k].name = flagged[k].name
                    /\ overrides[k].version = flagged[k].version
            /\ explainPc = "returned" => packageIdx = Len(explainOutput) + 1

C12_Witness ==
    /\ explainPc = "returned"
    /\ Len(explainOutput) = 2
    /\ explainOutput[1].overridden = FALSE
    /\ explainOutput[2].overridden = TRUE
    /\ explainOutput[1].name # explainOutput[2].name
    /\ Len(overrides) = 1
    /\ overrides[1].name = explainOutput[2].name

(***************************************************************************)
(* Properties of a run of the CLI, under SpecRun.                          *)
(***************************************************************************)
AnalyzeReturned == runPc \in {"report", "exit", "done"}
UnusedComputed == runPc \in {"exit", "done"}

\* The analysis raised: a declared value without startsWith, or an explain
\* result that cannot be iterated.
AnalysisRaised ==
    \/ resolution.raised
    \/ ~hasPnpmLock /\ runReadable /\ ~IsIterable(explainReturn)

\* C13: no exception leaves analyzeOverrides or findUnusedOverrides; when the
\* manifest cannot be read, or the analysis raised, analyzeOverrides returned
\* the empty list, and with an unreadable manifest so did findUnusedOverrides.
C13_NoFailureEscapes ==
    /\ ~escaped
    /\ runPc # "crashed"
    /\ AnalyzeReturned /\ (~runReadable \/ AnalysisRaised) => runOverrides = <<>>
    /\ UnusedComputed /\ ~runReadable => runUnused = <<>>

C13_Witness ==
    /\ runPc = "done"
    /\ resolution.raised
    /\ runOverrides = <<>>
    /\ ~escaped

\* C14: getNpmExplainOutput returns a list in every case: the parsed output
\* when that is a JSON array (also after a failure status), the empty list
\* when the output is empty, unparseable, an error payload or not an array.
C14_ExplainAlwaysReturnsList ==
    runPc = "parseExplainOutput" =>
        LET out == commandResult.stdout
        IN  explainReturn =
                IF /\ Len(resolution.names) > 0
                   /\ commandResult.hasStdout
                   /\ out.text = "json"
                   /\ out.json.kind = "array"
                THEN out.json
                ELSE EmptyArray

\* C15: a run that has ended has exit status 1 exactly when the list of
\* unused overrides it computed is non-empty, and 0 otherwise, whether or not
\* a usage was found; before it ends it has no exit status.
C15_ExitStatus ==
    /\ runPc = "done" => exitStatus = (IF Len(runUnused) > 0 THEN 1 ELSE 0)
    /\ runPc # "done" => exitStatus = -1

C15_Witness ==
    /\ runPc = "done"
    /\ exitStatus = 1
    /\ Len(runOverrides) > 0
    /\ Len(runUnused) > 0

(***************************************************************************)
(* The fold of the chains into the tree, step by step, under SpecTree.     *)
(***************************************************************************)
\* Node i keeps its specifier in this step, or had none (absent or empty) and
\* takes the one of the segment of `chain` that leads to it.
KeptOrBackfilled(i, chain) ==
    \/ tree'[i].rawSpec = tree[i].rawSpec
    \/ /\ ~Truthy(tree[i].rawSpec)
       /\ Truthy(tree'[i].rawSpec)
       /\ Depth(tree, i) + 1 <= Len(chain)
       /\ chain[Depth(tree, i) + 1] = Segment(tree[i].name, tree'[i].rawSpec)

\* C16: in every step of the fold each existing node stays where it is and
\* keeps its specifier, except that a node without a specifier may take the
\* specifier of the incoming segment for it; a specifier that is present is
\* never changed by a later chain.
C16_SpecifierOnlyBackfilled ==
    [][\A i \in 1..Len(tree) :
            /\ Len(tree') >= Len(tree)
            /\ tree'[i].name = tree[i].name
            /\ tree'[i].parent = tree[i].parent
            /\ Truthy(tree[i].rawSpec) => tree'[i].rawSpec = tree[i].rawSpec
            /\ tree'[i] # tree[i] =>
                    /\ treePc = "build"
                    /\ pathIdx <= Len(pathsWithRawSpecs)
                    /\ KeptOrBackfilled(i, pathsWithRawSpecs[pathIdx])]_vars

C16_Witness ==
    /\ treePc = "build"
    /\ pathIdx = 3
    /\ Len(pathsWithRawSpecs) = 2
    /\ Len(pathsWithRawSpecs[1]) = 3
    /\ Len(pathsWithRawSpecs[2]) = 2
    /\ Len(tree) = 3
    /\ pathsWithRawSpecs[1][2].name = pathsWithRawSpecs[2][2].name
    /\ pathsWithRawSpecs[1][2].rawSpec = Undefined
    /\ pathsWithRawSpecs[2][2].rawSpec = "^1"
    /\ pathsWithRawSpecs[1][3].rawSpec = "^1"
    /\ tree[2].rawSpec = "^1"
    /\ tree[3].rawSpec = "^1"

\* C17: in every usage, under npm and under pnpm, all the chains have the same
\* first segment identity (the root the unifier takes from the first chain).
C17_ChainsShareFirstSegment ==
    /\ \A u \in 1..Len(overrides) : SharedRoot(overrides[u].pathsWithRawSpecs)
    /\ \A u \in 1..Len(pnpmOverrides) : SharedRoot(pnpmOverrides[u].pathsWithRawSpecs)

\* C18: the aliasMap never holds an entry whose declared name equals the
\* actual name it maps to.
C18_NoSelfAlias ==
    \A declaredName \in DOMAIN aliasMap : aliasMap[declaredName] # declaredName

\* C19: the usage of an overridden entry without dependent records has
\* exactly one chain, the single root segment '<name>@<version>' (the alias
\* form for an alias) without specifier, and dependencyPaths is that identity.
C19_NoDependentsSingleChain ==
    LET flagged == FlaggedEntries(SubSeq(explainOutput, 1, packageIdx - 1))
    IN  \A k \in 1..Len(overrides) :
            (k <= Len(flagged) /\ flagged[k].dependents = <<>>) =>
                LET identity == OwnIdentity(overrides[k], explainAliasMap)
                IN  /\ overrides[k].pathsWithRawSpecs =
                            << <<Segment(identity, Undefined)>> >>
                    /\ overrides[k].dependencyPaths = <<identity>>
                    /\ ~IsAlias(overrides[k], explainAliasMap) =>
                            identity = flagged[k].name \o "@" \o flagged[k].version

C19_Witness ==
    /\ explainPc = "returned"
    /\ Len(explainOutput) = 1
    /\ explainOutput[1].overridden = TRUE
    /\ explainOutput[1].dependents = <<>>
    /\ Len(overrides) = 1
    /\ overrides[1].dependencyPaths = <<"x@1">>
    /\ overrides[1].pathsWithRawSpecs = << <<Segment("x@1", Undefined)>> >>

\* The segment a dependent record stands for: the identity of its parent
\* and the first non-empty of its rawSpec and its spec.
RecordSegment(record) ==
    [name |-> record.from.name \o "@" \o
                (IF record.from.version \in {Undefined, ""}
                 THEN "unknown" ELSE record.from.version),
     rawSpec |-> IF record.rawSpec \notin {Undefined, ""} THEN record.rawSpec
                 ELSE IF record.spec \notin {Undefined, ""} THEN record.spec
                 ELSE Undefined]

\* The descents of n records through a dependents forest, each record one
\* with a named parent and each next one a dependent of that parent.
RECURSIVE Descents(_, _)
Descents(dependents, n) ==
    IF n = 0 THEN {<<>>}
    ELSE UNION {{<<dependents[k]>> \o rest :
                    rest \in Descents(dependents[k].from.dependents, n - 1)} :
                k \in {j \in 1..Len(dependents) :
                        /\ dependents[j].hasFrom
                        /\ dependents[j].from.name \notin {Undefined, ""}}}

FollowsDescent(chain, descent) ==
    /\ Len(chain) >= Len(descent) + 1
    /\ \A i \in 1..Len(descent) : chain[i + 1] = RecordSegment(descent[i])

\* C20: every segment after the root of a chain is the segment of a
\* dependent record on one descent through the entry's dependents -- identity
\* '<from.name>@<from.version>' or '@unknown', specifier the rawSpec, else the
\* spec, else none -- and every such descent is followed by some chain.
C20_DependentSegments ==
    LET flagged == FlaggedEntries(SubSeq(explainOutput, 1, packageIdx - 1))
    IN  \A k \in 1..Len(overrides) :
            k <= Len(flagged) =>
                LET chains == overrides[k].pathsWithRawSpecs
                    dependents == flagged[k].dependents
                IN  /\ \A c \in 1..Len(chains) :
                            \E descent \in Descents(dependents, Len(chains[c]) - 1) :
                                FollowsDescent(chains[c], descent)
                    /\ \A n \in 1..2 :
                            \A descent \in Descents(dependents, n) :
                                \E c \in 1..Len(chains) :
                                    FollowsDescent(chains[c], descent)

C20_Witness ==
    /\ explainPc = "returned"
    /\ Len(overrides) = 1
    /\ explainOutput[1].dependents =
            <<Dependent("^1", "^2", TRUE,
                        From("b", "2", <<Dependent(Undefined, "^2", TRUE,
                                                   From("c", "3", <<>>))>>)),
              Dependent(Undefined, "", TRUE, From("b", Undefined, <<>>))>>
    /\ overrides[1].pathsWithRawSpecs =
            << <<Segment("x@1", Undefined), Segment("b@2", "^1"),
                 Segment("c@3", "^2")>>,
               <<Segment("x@1", Undefined), Segment("b@unknown", Undefined)>> >>

Named(record) ==
    record.hasFrom /\ record.from.name \notin {Undefined, ""}

\* The terminal records of a dependents forest, each as the indices that
\* lead to it, in response order: a named record without nested dependents,
\* and an unnamed record below a named one.
RECURSIVE Terminals(_, _)
Terminals(dependents, below) ==
    Flatten([k \in 1..Len(dependents) |->
        IF Named(dependents[k])
        THEN IF dependents[k].from.dependents = <<>>
             THEN << <<k>> >>
             ELSE LET deeper == Terminals(dependents[k].from.dependents, TRUE)
                  IN  [j \in 1..Len(deeper) |-> <<k>> \o deeper[j]]
        ELSE IF below THEN << <<k>> >> ELSE <<>>])

\* The segments of the named records on the way to a terminal record.
RECURSIVE SegmentsTo(_, _)
SegmentsTo(dependents, indices) ==
    IF indices = <<>> \/ ~Named(dependents[Head(indices)]) THEN <<>>
    ELSE <<RecordSegment(dependents[Head(indices)])>>
            \o SegmentsTo(dependents[Head(indices)].from.dependents, Tail(indices))

\* C21: the chains of an entry with dependent records are, in response
\* order, one chain per terminal record -- the root and the segments of the
\* named records leading to it; an unnamed record of the first level gives
\* none, and sibling records give separate chains.
C21_OneChainPerTerminalRecord ==
    LET flagged == FlaggedEntries(SubSeq(explainOutput, 1, packageIdx - 1))
    IN  \A k \in 1..Len(overrides) :
            (k <= Len(flagged) /\ flagged[k].dependents # <<>>) =>
                LET terminals == Terminals(flagged[k].dependents, FALSE)
                    rootSegment ==
                        Segment(OwnIdentity(overrides[k], explainAliasMap), Undefined)
                IN  overrides[k].pathsWithRawSpecs =
                        [i \in 1..Len(terminals) |->
                            <<rootSegment>>
                                \o SegmentsTo(flagged[k].dependents, terminals[i])]

C21_Witness ==
    /\ explainPc = "returned"
    /\ Len(overrides) = 1
    /\ explainOutput[1].dependents =
            <<Dependent(Undefined, "^2", FALSE, NoFrom),
              Dependent("^1", "^2", TRUE,
                        From("b", "2", <<Dependent(Undefined, "^2", TRUE, RootProjectFrom),
                                         Dependent(Undefined, "^2", TRUE,
                                                   From("c", "3", <<>>))>>))>>
    /\ overrides[1].pathsWithRawSpecs =
            << <<Segment("x@1", Undefined), Segment("b@2", "^1")>>,
               <<Segment("x@1", Undefined), Segment("b@2", "^1"),
                 Segment("c@3", "^2")>> >>

(***************************************************************************)
(* The order of the children, under SpecTree.                              *)
(***************************************************************************)
\* The identities that follow the identities `above` (below the root) in the
\* first `upto` chains, each once, in the order in which the chains first
\* show them.
RECURSIVE FirstMet(_, _, _, _, _)
FirstMet(chains, upto, above, i, met) ==
    IF i > upto THEN met
    ELSE IF /\ Len(chains[i]) > Len(above) + 1
            /\ \A j \in 1..Len(above) : chains[i][j + 1].name = above[j]
            /\ \A j \in 1..Len(met) : met[j] # chains[i][Len(above) + 2].name
         THEN FirstMet(chains, upto, above, i + 1,
                       Append(met, chains[i][Len(above) + 2].name))
         ELSE FirstMet(chains, upto, above, i + 1, met)

\* The identities from below the root down to a node.
RECURSIVE NamesBelowRoot(_, _)
NamesBelowRoot(nodes, node) ==
    IF nodes[node].parent = 0 THEN <<>>
    ELSE Append(NamesBelowRoot(nodes, nodes[node].parent), nodes[node].name)

\* The identities of the children of a node, in the order of their creation.
RECURSIVE ChildNamesFrom(_, _, _)
ChildNamesFrom(nodes, node, k) ==
    IF k > Len(nodes) THEN <<>>
    ELSE (IF nodes[k].parent = node THEN <<nodes[k].name>> ELSE <<>>)
            \o ChildNamesFrom(nodes, node, k + 1)

\* The child of a node that has a given identity.
ChildNamed(nodes, node, name) ==
    CHOOSE k \in 1..Len(nodes) : nodes[k].parent = node /\ nodes[k].name = name

\* The nodes below and including `node`, depth first with the children of
\* every node in first-met order.
RECURSIVE FirstMetPreorder(_, _, _)
FirstMetPreorder(chains, nodes, node) ==
    LET met == FirstMet(chains, Len(chains), NamesBelowRoot(nodes, node), 1, <<>>)
    IN  <<node>> \o Flatten([k \in 1..Len(met) |->
                        FirstMetPreorder(chains, nodes, ChildNamed(nodes, node, met[k]))])

LinesInOrder(nodes, order) ==
    Join([k \in 1..Len(order) |-> ExpectedLine(nodes, order[k])], "\n")

\* C22: in the tree that was built the children of every node are, in their
\* order, the identities first met below that node in the chains taken in
\* list order; and the text is the lines of the nodes depth first with the
\* children in that first-met order, a function of the list of chains.
C22_ChildrenInFirstMetOrder ==
    Returned =>
        /\ \A node \in 1..Len(tree) :
                ChildNamesFrom(tree, node, 1) =
                    FirstMet(pathsWithRawSpecs, Len(pathsWithRawSpecs),
                             NamesBelowRoot(tree, node), 1, <<>>)
        /\ text = LinesInOrder(tree, FirstMetPreorder(pathsWithRawSpecs, tree, 1))

C22_Witness ==
    /\ Returned
    /\ pathsWithRawSpecs =
            << <<Segment("a@1", Undefined), Segment("b@3", Undefined),
                 Segment("d@4", Undefined)>>,
               <<Segment("a@1", Undefined), Segment("b@2", Undefined)>> >>
    /\ text = "a@1\n - b@3\n    - d@4\n - b@2"

(***************************************************************************)
(* Properties of one run of main, under SpecRun.                           *)
(***************************************************************************)
\* C23: a run that has ended has called getPackageJson exactly once.
C23_ManifestReadOnce ==
    runPc = "done" => manifestReads = 1

\* The names a run has to query: under pnpm the keys of the overrides and of
\* the pnpm.overrides, under npm one name for every key of the overrides.
DeclaredKeys(declared) == [k \in 1..Len(declared) |-> declared[k].name]

NamesToQuery ==
    IF hasPnpmLock
    THEN DeclaredKeys(IF runManifest.hasOverrides THEN runManifest.overrides ELSE <<>>)
         \o SelectSeq(DeclaredKeys(IF runManifest.hasPnpmOverrides
                                   THEN runManifest.pnpmOverrides ELSE <<>>),
                      LAMBDA n : ~runManifest.hasOverrides
                                 \/ \A k \in 1..Len(runManifest.overrides) :
                                        runManifest.overrides[k].name # n)
    ELSE resolution.names

AnalyzeOver == runPc \in {"report", "exit", "done", "crashed"}

\* C24: the external command runs at most once in a run, with every name to
\* query on its one command line, and it does not run when there is no name
\* to query.
C24_OneBatchedInvocation ==
    /\ invocations <= 1
    /\ Len(queriedNames) = invocations
    /\ invocations = 1 =>
            /\ queriedNames[1] # <<>>
            /\ queriedNames[1] = NamesToQuery
            /\ ~hasPnpmLock => Len(queriedNames[1]) = Len(runManifest.overrides)
    /\ (AnalyzeOver /\ NamesToQuery = <<>>) => invocations = 0

C24_Witness ==
    /\ runPc = "done"
    /\ hasPnpmLock
    /\ invocations = 1
    /\ Len(queriedNames[1]) = 3

\* C25: buildTreeFromPathsWithRawSpecChain fails on the empty list, and
\* formatAsUnifiedTreeFromPathsWithRawSpecs never lets it: given the empty
\* list it returns the empty text and builds no tree.
C25_EmptyListNeverUnified ==
    /\ BuildTreeFromPathsWithRawSpecChain(<<>>) = NoPathsProvided
    /\ treePc # "threw"
    /\ (treePc = "returned" /\ pathsWithRawSpecs = <<>>) => (text = "" /\ tree = <<>>)
    /\ tree # <<>> => pathsWithRawSpecs # <<>>

C25_Witness ==
    /\ treePc = "returned"
    /\ pathsWithRawSpecs = <<>>
    /\ text = ""
    /\ tree = <<>>

\* C26: every usage parseExplainOutput has pushed holds at least one chain.
C26_EveryUsageHasAChain ==
    \A k \in 1..Len(overrides) : Len(overrides[k].pathsWithRawSpecs) >= 1

\* The identities of a chain, root included.
ChainNames(chain) == [i \in 1..Len(chain) |-> chain[i].name]

ProperPrefix(short, long) ==
    Len(short) < Len(long) /\ SubSeq(long, 1, Len(short)) = short

\* The identities from the root down to a node, root included.
NamesFromRoot(nodes, node) == <<nodes[1].name>> \o NamesBelowRoot(nodes, node)

IsLeaf(nodes, node) == \A k \in 1..Len(nodes) : nodes[k].parent # node

\* C27: for a non-empty list of chains with one root, the root-to-leaf paths
\* of the tree are, as identity sequences, exactly the chains that are not a
\* proper prefix of another chain, and every chain is a root-to-node path.
C27_UnifyingLosesAndInventsNothing ==
    (Returned /\ SharedRoot(pathsWithRawSpecs)) =>
        LET chains == {ChainNames(pathsWithRawSpecs[i]) : i \in 1..Len(pathsWithRawSpecs)}
            maximal == {c \in chains : \A d \in chains : ~ProperPrefix(c, d)}
            toLeaf == {NamesFromRoot(tree, k) : k \in {j \in 1..Len(tree) : IsLeaf(tree, j)}}
            toNode == {NamesFromRoot(tree, k) : k \in 1..Len(tree)}
        IN  /\ toLeaf = maximal
            /\ chains \subseteq toNode

C27_Witness ==
    /\ Returned
    /\ Len(pathsWithRawSpecs) = 2
    /\ ProperPrefix(ChainNames(pathsWithRawSpecs[1]), ChainNames(pathsWithRawSpecs[2]))
    /\ Len(tree) = 3
    /\ IsLeaf(tree, 3) /\ ~IsLeaf(tree, 2)

\* The declared names the external command was asked about: under pnpm the
\* names on its command line, under npm the keys of the overrides, each
\* queried under its own name or under the name its alias stands for.
QueriedDeclaredNames ==
    IF invocations = 0 THEN {}
    ELSE IF hasPnpmLock
         THEN {queriedNames[1][k] : k \in 1..Len(queriedNames[1])}
         ELSE {runManifest.overrides[k].name : k \in 1..Len(queriedNames[1])}

\* The declared names findUnusedOverrides looks up among the usages.
CheckedDeclaredNames ==
    IF runReadable
    THEN {CombinedOverrides(runManifest)[k].name :
            k \in 1..Len(CombinedOverrides(runManifest))}
    ELSE {}

\* C28: at the end of a run the declared names checked for being unused are
\* the declared names that were queried.
C28_CheckedNamesWereQueried ==
    runPc = "done" => CheckedDeclaredNames = QueriedDeclaredNames

\* The external command was run and failed without leaving a list: it
\* ended in error with no output, or with output that is not a JSON array.
FailedEntirely ==
    /\ invocations = 1
    /\ commandResult.status = "failed"
    /\ ~(commandResult.hasStdout /\ commandResult.stdout.text = "json"
            /\ commandResult.stdout.json.kind = "array")

\* The keys of the overrides and of the pnpm.overrides of the manifest.
AllDeclaredNames ==
    {runManifest.overrides[k].name : k \in 1..Len(runManifest.overrides)}
    \cup {runManifest.pnpmOverrides[k].name : k \in 1..Len(runManifest.pnpmOverrides)}

\* C29: a run whose external command failed entirely ends with no usage,
\* with every declared override in the unused list, once each, and with
\* exit status 1.
C29_FailedCommandReportsAllUnused ==
    (runPc = "done" /\ FailedEntirely) =>
        /\ AllDeclaredNames # {}
        /\ runOverrides = <<>>
        /\ {runUnused[k].name : k \in 1..Len(runUnused)} = AllDeclaredNames
        /\ Len(runUnused) = Cardinality(AllDeclaredNames)
        /\ exitStatus = 1

C29_Witness ==
    /\ runPc = "done"
    /\ FailedEntirely
    /\ ~hasPnpmLock
    /\ commandResult.hasStdout
    /\ commandResult.stdout.json.kind = "object"
    /\ Len(runUnused) = 3
    /\ exitStatus = 1

(***************************************************************************)
(* The version of a usage under pnpm, under SpecPnpm.                      *)
(***************************************************************************)
\* The resolved versions of the occurrences of a package in a list of
\* entries and in everything below them.
RECURSIVE OccurrenceVersions(_, _)
OccurrenceVersions(entries, targetName) ==
    UNION {(IF entries[k].name = targetName THEN {entries[k].pkg.version} ELSE {})
           \cup OccurrenceVersions(entries[k].pkg.dependencies, targetName)
           \cup OccurrenceVersions(entries[k].pkg.devDependencies, targetName)
           \cup OccurrenceVersions(entries[k].pkg.optionalDependencies, targetName) :
           k \in 1..Len(entries)}

OccurrenceVersionsInOutput(whyProjects, targetName) ==
    UNION {OccurrenceVersions(whyProjects[k].dependencies, targetName)
           \cup OccurrenceVersions(whyProjects[k].devDependencies, targetName)
           \cup OccurrenceVersions(whyProjects[k].optionalDependencies, targetName) :
           k \in 1..Len(whyProjects)}

\* C30: the version of every usage analyzePnpmOverrides has pushed is the
\* resolved version of an occurrence of its package in the why output.
C30_PnpmVersionIsResolved ==
    \A k \in 1..Len(pnpmOverrides) :
        pnpmOverrides[k].version \in
            OccurrenceVersionsInOutput(projects, pnpmOverrides[k].name)

====
